---- MODULE Spec2Model ----
(***************************************************************************)
(* Room / session orchestration of the signaling server (server index.ts,  *)
(* in src/unnamed/part_001) and of its playback supervisor (hls.ts, in     *)
(* src/unnamed/part_000).                                                  *)
(*                                                                         *)
(* Every socket.io handler is an async function.  A handler runs without   *)
(* interruption up to an await on real I/O (the Redis client, the          *)
(* mediasoup worker, getRouter); there it suspends and any other handler   *)
(* or event may run.  One action of this module is one such uninterrupted  *)
(* piece.  An await on a promise that is already settled (await            *)
(* cleanupPeer(..), await handle.close(), the return of an async function) *)
(* resumes in the same turn of the event loop, before any I/O event, and   *)
(* is not a suspension point.                                              *)
(*                                                                         *)
(* All handlers share one Redis client: commands are executed by the store *)
(* in the order they are issued and their replies come back in that order. *)
(* A command takes effect in the step that issues it; the handler that     *)
(* awaits it resumes when its reply is at the head of redisQ.              *)
(***************************************************************************)
EXTENDS Integers, Sequences, FiniteSets, TLC

Rooms == {"r1", "r2"}

\* The scenarios about a single room play in r1.
OneRoom == {"r1"}

Users == {"alice", "bob", "carol"}
Conns == {1, 2, 3}
Kinds == {"audio", "video"}
MsgKinds == {"joinRoom", "createWebRTCTransport", "transport-connect",
             "transport-recv-connect", "transport-produce", "consume",
             "consumer-resume", "hangup", "end-meeting", "disconnect"}

\* The handlers that suspend.  A connection has at most one instance of each
\* in flight: an instance is named by its connection and its message.
Handlers == {"joinRoom", "createWebRTCTransport", "transport-produce", "consume",
             "consumer-resume", "end-meeting", "disconnect"}
TaskIds == Conns \X Handlers

NoKey == <<"", "">>
PeerKeys == Rooms \X Users

VARIABLES
    redis,          \* room:<id> -> the durable record {peers: [...]}, or absent
    redisQ,         \* handlers awaiting a Redis reply, in issue order
    sock,           \* per connection: socket.username, socket.roomId, socket.io rooms
    producerInfo,   \* 'roomId:username' -> {producerTransport, producers}
    consumerInfo,   \* 'roomId:username' -> {consumerTransport, consumers}
    transports,     \* media engine: transports created so far
    producers,      \* media engine: producers created so far
    consumers,      \* media engine: consumers created so far
    hlsActiveRooms, \* rooms flagged as having playback started
    hlsSessions,    \* hls.ts: roomId -> {ffmpeg, plainTransport, consumer}
    ffmpegs,        \* transcoding subprocesses spawned so far
    tasks,          \* suspended handler instances
    acks,           \* acknowledgement callbacks invoked so far
    notes,          \* notifications emitted so far
    quota,          \* messages each connection may still send
    env,            \* scenario switches, constant along a behaviour
    escaped,        \* exceptions that left a handler (unhandled rejections)
    injectSessions, \* injectFile.ts: roomId -> {ffmpeg, transports, producers}
    injectCalls,    \* calls of injectFileIntoMediasoup in flight, per room
    injectFfmpegs,  \* injection subprocesses spawned so far
    forgotten       \* history: each removal of a session record from hlsSessions

vars == <<redis, redisQ, sock, producerInfo, consumerInfo, transports, producers,
          consumers, hlsActiveRooms, hlsSessions, ffmpegs, tasks, acks, notes,
          quota, env, escaped, injectSessions, injectCalls, injectFfmpegs,
          forgotten>>

injectVars == <<injectSessions, injectCalls, injectFfmpegs>>
mediaVars == <<producerInfo, consumerInfo, transports, producers, consumers>>
hlsVars == <<hlsActiveRooms, hlsSessions, ffmpegs>>

Min(a, b) == IF a < b THEN a ELSE b

\* ------------------------------------------------------------------ records

NoRoomData == [exists |-> FALSE, peers |-> <<>>]

\* producerInfo.set(peerKey, { producerTransport: null!, producers: new Map() })
EmptyProducerInfo ==
    [present |-> TRUE, transport |-> 0, producers |-> [k \in Kinds |-> 0]]

NoProducerInfo ==
    [present |-> FALSE, transport |-> 0, producers |-> [k \in Kinds |-> 0]]

\* consumerInfo.set(peerKey, { consumerTransport: null!, consumers: new Map() })
EmptyConsumerInfo == [present |-> TRUE, transport |-> 0, consumers |-> {}]

NoConsumerInfo == [present |-> FALSE, transport |-> 0, consumers |-> {}]

NoSession == [present |-> FALSE, ffmpeg |-> 0, transport |-> 0, consumer |-> 0]

NoInjectSession ==
    [present |-> FALSE, ffmpeg |-> 0, audioTransport |-> 0, videoTransport |-> 0,
     audioProducer |-> 0, videoProducer |-> 0]

\* A call of injectFileIntoMediasoup: where it is suspended, how many calls
\* the room has had, whether the router it was given is still open, and the
\* handles it has created so far.
NoInjectCall ==
    [pc |-> "idle", n |-> 0, rok |-> FALSE, audioTransport |-> 0, videoTransport |-> 0,
     audioProducer |-> 0]

NoSock == [username |-> "", roomId |-> "", rooms |-> {}, connected |-> TRUE, seq |-> 0]

NoTask ==
    [pc |-> "idle", conn |-> 0, rid |-> 0, room |-> "", user |-> "", creator |-> FALSE,
     kind |-> "", tag |-> "", exists |-> FALSE, found |-> FALSE, peers |-> <<>>,
     resp |-> {},
     rok |-> FALSE, tr |-> 0, prod |-> 0, hroom |-> "", pt |-> 0, cons |-> 0,
     ff |-> 0, arg |-> 0]

NoAck ==
    [conn |-> 0, rid |-> 0, msg |-> "", err |-> "", user |-> "", room |-> "",
     creator |-> FALSE, existed |-> FALSE, gone |-> FALSE, caps |-> FALSE,
     prods |-> {}, id |-> 0]

\* ------------------------------------------------------------ media engine

M == [pi |-> producerInfo, ci |-> consumerInfo, tr |-> transports,
      pr |-> producers, co |-> consumers]

SetM(m) ==
    /\ producerInfo' = m.pi
    /\ consumerInfo' = m.ci
    /\ transports' = m.tr
    /\ producers' = m.pr
    /\ consumers' = m.co

\* The transport is gone: its producers and consumers close with it
\* (transportClosed(): 'transportclose' is emitted, '@close' is not).
TransportClosed(m, t) ==
    [m EXCEPT
        !.tr[t].closed = TRUE,
        !.pr = [p \in DOMAIN m.pr |->
                   IF m.pr[p].tr = t THEN [m.pr[p] EXCEPT !.closed = TRUE] ELSE m.pr[p]],
        !.co = [c \in DOMAIN m.co |->
                   IF m.co[c].tr = t THEN [m.co[c] EXCEPT !.closed = TRUE] ELSE m.co[c]]]

\* transport.close(): returns at once on a closed transport.
CloseTransport(m, t) ==
    LET m1 == [m EXCEPT !.tr[t].ncl = Min(2, @ + 1)]
    IN  IF m.tr[t].closed THEN m1 ELSE TransportClosed(m1, t)

\* producer.on('@close', () => producerInfo.get(peerKey)?.producers.delete(kind))
ProducerCloseListener(m, p) ==
    LET key == m.pr[p].lkey
    IN  IF key # NoKey /\ m.pi[key].present
        THEN [m EXCEPT !.pi[key].producers[m.pr[p].kind] = 0]
        ELSE m

\* producer.close(): returns at once on a closed producer, else emits '@close'.
CloseProducer(m, p) ==
    LET m1 == [m EXCEPT !.pr[p].ncl = Min(2, @ + 1)]
    IN  IF m.pr[p].closed THEN m1
        ELSE ProducerCloseListener([m1 EXCEPT !.pr[p].closed = TRUE], p)

\* consumer.close(): returns at once on a closed consumer.
CloseConsumer(m, c) ==
    [m EXCEPT !.co[c].ncl = Min(2, @ + 1), !.co[c].closed = TRUE]

RECURSIVE CloseProducers(_, _)
CloseProducers(m, ps) ==
    IF ps = {} THEN m
    ELSE LET p == CHOOSE x \in ps : \A y \in ps : x <= y
         IN  CloseProducers(CloseProducer(m, p), ps \ {p})

RECURSIVE CloseConsumers(_, _)
CloseConsumers(m, cs) ==
    IF cs = {} THEN m
    ELSE LET c == CHOOSE x \in cs : \A y \in cs : x <= y
         IN  CloseConsumers(CloseConsumer(m, c), cs \ {c})

\* router.close(): every transport of the room closes.
RECURSIVE CloseRoomTransports(_, _)
CloseRoomTransports(m, ts) ==
    IF ts = {} THEN m
    ELSE LET t == CHOOSE x \in ts : \A y \in ts : x <= y
         IN  CloseRoomTransports(TransportClosed(m, t), ts \ {t})

RouterClose(m, r) ==
    CloseRoomTransports(m, {t \in DOMAIN m.tr : m.tr[t].room = r /\ ~m.tr[t].closed})

\* ------------------------------------------------------------- cleanupPeer

\* cleanupPeer without `producerInfo.delete(peerKey)`.
CleanupProducerSideKeepsRecord(m, key) ==
    LET info == m.pi[key]
        m1 == CloseProducers(m, {info.producers[k] : k \in Kinds} \ {0})
        m2 == IF info.transport # 0 THEN CloseTransport(m1, info.transport) ELSE m1
    IN  IF info.present THEN m2 ELSE m

CleanupProducerSide(m, key) ==
    LET info == m.pi[key]
        m1 == CloseProducers(m, {info.producers[k] : k \in Kinds} \ {0})
        m2 == IF info.transport # 0 THEN CloseTransport(m1, info.transport) ELSE m1
    IN  IF info.present THEN [m2 EXCEPT !.pi[key] = NoProducerInfo] ELSE m

\* cleanupPeer without `peerConsumerInfo.consumerTransport?.close()`.
CleanupConsumerSideKeepsTransport(m, key) ==
    LET info == m.ci[key]
        m1 == CloseConsumers(m, info.consumers)
    IN  IF info.present THEN [m1 EXCEPT !.ci[key] = NoConsumerInfo] ELSE m

CleanupConsumerSide(m, key) ==
    LET info == m.ci[key]
        m1 == CloseConsumers(m, info.consumers)
        m2 == IF info.transport # 0 THEN CloseTransport(m1, info.transport) ELSE m1
    IN  IF info.present THEN [m2 EXCEPT !.ci[key] = NoConsumerInfo] ELSE m

cleanupPeer(m, key) == CleanupConsumerSide(CleanupProducerSide(m, key), key)

RECURSIVE CleanupPeers(_, _, _)
CleanupPeers(m, r, peers) ==
    IF peers = <<>> THEN m
    ELSE CleanupPeers(cleanupPeer(m, <<r, Head(peers)>>), r, Tail(peers))

\* ------------------------------------------------------ stopHlsRecording

\* ffmpeg.kill('SIGKILL'): the process dies; its 'close' event comes later.
Kill(ff, f) ==
    IF f # 0 /\ ff[f].st = "running" THEN [ff EXCEPT ![f].st = "killed"] ELSE ff

\* The session's consumer and relay transport are closed, in that order.
ReleaseSession(m, sess) ==
    LET m1 == IF sess.consumer # 0 THEN CloseConsumer(m, sess.consumer) ELSE m
    IN  IF sess.transport # 0 THEN CloseTransport(m1, sess.transport) ELSE m1

\* hlsSessions.delete(roomId), run when the media engine is in state m: if
\* the room has a record, the removal is noted with the state its consumer
\* and relay transport are in at that moment.
Forget(r, by, m) ==
    IF hlsSessions[r].present
    THEN forgotten \cup {[room |-> r, by |-> by,
                          consumer |-> m.co[hlsSessions[r].consumer].closed,
                          transport |-> m.tr[hlsSessions[r].transport].closed]}
    ELSE forgotten

\* ---------------------------------------------------------------- helpers

Free(c, k) == tasks[<<c, k>>].pc = "idle"

Busy(c) == \E k \in Handlers : ~Free(c, k)

\* A connection sends its next message: it is connected, has quota left, and
\* (unless the scenario lets requests overlap) has no handler in flight.
CanSend(c, k) ==
    /\ sock[c].connected
    /\ quota[c][k] > 0
    /\ env.overlap \/ ~Busy(c)

Sent(c, k) ==
    /\ quota' = [quota EXCEPT ![c][k] = @ - 1]
    /\ UNCHANGED <<env, escaped, injectVars, forgotten>>

Joined(c) == sock[c].roomId # "" /\ sock[c].username # ""

Ack(t, a) == acks' = acks \cup {a}

\* socket.to(room) / io.to(room): the connections in the socket.io room.
InRoom(r) == {c \in Conns : r \in sock[c].rooms}

Finish(t) == tasks' = [tasks EXCEPT ![t] = NoTask]

AwaitsRedis(t) == redisQ # <<>> /\ Head(redisQ) = t

PeerLeft(r, u) == {[to |-> d, type |-> "peer-left", user |-> u, id |-> 0] : d \in InRoom(r)}

MeetingEnded(r) == {[to |-> d, type |-> "meeting-ended", user |-> "", id |-> 0] : d \in InRoom(r)}

\* The routers handed out for room r are closed: a handler that still holds
\* one holds a closed router.
RouterStale(ts, r) ==
    [t \in TaskIds |-> IF ts[t].room = r THEN [ts[t] EXCEPT !.rok = FALSE] ELSE ts[t]]

\* stopHlsRecording without `hlsSessions.delete(roomId)`.
StopSessionsKeepsRecord(r) == hlsSessions

\* stopHlsRecording(roomId), as the three pieces of state it touches.
StopSessions(r) == [hlsSessions EXCEPT ![r] = NoSession]

StopFfmpegs(r) ==
    IF hlsSessions[r].present THEN Kill(ffmpegs, hlsSessions[r].ffmpeg) ELSE ffmpegs

StopMedia(m, r) ==
    IF hlsSessions[r].present THEN ReleaseSession(m, hlsSessions[r]) ELSE m

\* stopHlsRecording reaches `hlsSessions.delete(roomId)` when its async
\* function has called consumer.close() and is suspended before
\* plainTransport.close(), which runs once the caller has returned.
StopForgets(m, r) ==
    Forget(r, "stop",
           IF hlsSessions[r].present THEN CloseConsumer(m, hlsSessions[r].consumer) ELSE m)

\* ------------------------------------------------------------- joinRoom

\* for (const otherPeerUsername of roomData.peers) ... existingProducers.push
ExistingProducers(r, peers) ==
    {<<producerInfo[<<r, peers[i]>>].producers[k],
       producers[producerInfo[<<r, peers[i]>>].producers[k]].tag>> :
        <<i, k>> \in {x \in (DOMAIN peers) \X Kinds :
                        /\ producerInfo[<<r, peers[x[1]]>>].present
                        /\ producerInfo[<<r, peers[x[1]]>>].producers[x[2]] # 0}}

JoinAck(t, e) ==
    [NoAck EXCEPT !.conn = tasks[t].conn, !.rid = tasks[t].rid, !.msg = "joinRoom",
                  !.err = e, !.user = tasks[t].user, !.room = tasks[t].room,
                  !.creator = tasks[t].creator, !.existed = tasks[t].exists]

\* Arrival of joinRoom, up to `await redisClient.exists`.
StartJoin(c, u, r, cr) ==
    /\ CanSend(c, "joinRoom")
    /\ Free(c, "joinRoom")
    /\ Sent(c, "joinRoom")
    /\ sock' = [sock EXCEPT ![c].username = u, ![c].roomId = r,
                            ![c].rooms = @ \cup {r}, ![c].seq = @ + 1]
    /\ producerInfo' = [producerInfo EXCEPT ![<<r, u>>] = EmptyProducerInfo]
    /\ consumerInfo' = [consumerInfo EXCEPT ![<<r, u>>] = EmptyConsumerInfo]
    /\ tasks' = [tasks EXCEPT ![<<c, "joinRoom">>] =
                    [NoTask EXCEPT !.pc = "join_exists", !.conn = c,
                                   !.rid = sock[c].seq + 1, !.room = r, !.user = u,
                                   !.creator = cr, !.exists = redis[r].exists]]
    /\ redisQ' = Append(redisQ, <<c, "joinRoom">>)
    /\ UNCHANGED <<redis, transports, producers, consumers, hlsVars, acks, notes>>

\* JoinExists without `if (roomExists) return callback(...)` for a creator.
JoinExistsNoCreatorCheck(t) ==
    /\ tasks[t].pc = "join_exists"
    /\ AwaitsRedis(t)
    /\ redisQ' = Tail(redisQ)
    /\ IF ~tasks[t].creator /\ ~tasks[t].exists
       THEN Ack(t, JoinAck(t, "Room not found.")) /\ Finish(t)
       ELSE tasks' = [tasks EXCEPT ![t].pc = "join_router"] /\ UNCHANGED acks
    /\ UNCHANGED <<redis, sock, mediaVars, hlsVars, notes, quota, env, escaped, injectVars, forgotten>>

\* The reply of exists: the two rejections, or on to `await getRouter`.
JoinExists(t) ==
    /\ tasks[t].pc = "join_exists"
    /\ AwaitsRedis(t)
    /\ redisQ' = Tail(redisQ)
    /\ IF tasks[t].creator /\ tasks[t].exists
       THEN Ack(t, JoinAck(t, "Room already exists.")) /\ Finish(t)
       ELSE IF ~tasks[t].creator /\ ~tasks[t].exists
       THEN Ack(t, JoinAck(t, "Room not found.")) /\ Finish(t)
       ELSE tasks' = [tasks EXCEPT ![t].pc = "join_router"] /\ UNCHANGED acks
    /\ UNCHANGED <<redis, sock, mediaVars, hlsVars, notes, quota, env, escaped, injectVars, forgotten>>

\* JoinCreate writing an empty peer list.
JoinCreateEmpty(t) ==
    /\ tasks[t].pc = "join_router"
    /\ tasks[t].creator
    /\ redis' = [redis EXCEPT ![tasks[t].room] = [exists |-> TRUE, peers |-> <<>>]]
    /\ redisQ' = Append(redisQ, t)
    /\ tasks' = [tasks EXCEPT ![t].pc = "join_set"]
    /\ UNCHANGED <<sock, mediaVars, hlsVars, acks, notes, quota, env, escaped, injectVars, forgotten>>

\* Creator: getRouter returned; the record is written with peers [username].
JoinCreate(t) ==
    /\ tasks[t].pc = "join_router"
    /\ tasks[t].creator
    /\ redis' = [redis EXCEPT ![tasks[t].room] =
                    [exists |-> TRUE, peers |-> <<tasks[t].user>>]]
    /\ redisQ' = Append(redisQ, t)
    /\ tasks' = [tasks EXCEPT ![t].pc = "join_set"]
    /\ UNCHANGED <<sock, mediaVars, hlsVars, acks, notes, quota, env, escaped, injectVars, forgotten>>

\* Joiner: getRouter returned; the record is read.
JoinRead(t) ==
    /\ tasks[t].pc = "join_router"
    /\ ~tasks[t].creator
    /\ redisQ' = Append(redisQ, t)
    /\ tasks' = [tasks EXCEPT ![t].pc = "join_get",
                              ![t].found = redis[tasks[t].room].exists,
                              ![t].peers = redis[tasks[t].room].peers]
    /\ UNCHANGED <<redis, sock, mediaVars, hlsVars, acks, notes, quota, env, escaped, injectVars, forgotten>>

\* A join whose push and write-back act on the list the store holds at the
\* time of the write, not on the copy the handler read.
JoinGetOnCurrentList(t) ==
    /\ tasks[t].pc = "join_get"
    /\ AwaitsRedis(t)
    /\ IF ~tasks[t].found
       THEN /\ Ack(t, [JoinAck(t, "TypeError") EXCEPT !.gone = TRUE])
            /\ Finish(t)
            /\ redisQ' = Tail(redisQ)
            /\ UNCHANGED redis
       ELSE /\ tasks' = [tasks EXCEPT
                  ![t].pc = "join_set",
                  ![t].resp = ExistingProducers(tasks[t].room, tasks[t].peers),
                  ![t].peers = Append(@, tasks[t].user)]
            /\ redis' = [redis EXCEPT ![tasks[t].room] =
                  [exists |-> TRUE,
                   peers |-> Append(redis[tasks[t].room].peers, tasks[t].user)]]
            /\ redisQ' = Append(Tail(redisQ), t)
            /\ UNCHANGED acks
    /\ UNCHANGED <<sock, mediaVars, hlsVars, notes, quota, env, escaped, injectVars,
                   forgotten>>

\* Joiner: the reply of get.  JSON.parse(null) is null and roomData.peers
\* throws; otherwise the other peers' producers are listed, the username is
\* pushed and the list written back.
JoinGet(t) ==
    /\ tasks[t].pc = "join_get"
    /\ AwaitsRedis(t)
    /\ IF ~tasks[t].found
       THEN /\ Ack(t, [JoinAck(t, "TypeError") EXCEPT !.gone = TRUE])
            /\ Finish(t)
            /\ redisQ' = Tail(redisQ)
            /\ UNCHANGED redis
       ELSE /\ tasks' = [tasks EXCEPT
                  ![t].pc = "join_set",
                  ![t].resp = ExistingProducers(tasks[t].room, tasks[t].peers),
                  ![t].peers = Append(@, tasks[t].user)]
            /\ redis' = [redis EXCEPT ![tasks[t].room] =
                  [exists |-> TRUE, peers |-> Append(tasks[t].peers, tasks[t].user)]]
            /\ redisQ' = Append(Tail(redisQ), t)
            /\ UNCHANGED acks
    /\ UNCHANGED <<sock, mediaVars, hlsVars, notes, quota, env, escaped, injectVars, forgotten>>

\* The reply of set: callback(response).
JoinSet(t) ==
    /\ tasks[t].pc = "join_set"
    /\ AwaitsRedis(t)
    /\ redisQ' = Tail(redisQ)
    /\ Ack(t, [JoinAck(t, "") EXCEPT !.caps = TRUE, !.prods = tasks[t].resp])
    /\ Finish(t)
    /\ UNCHANGED <<redis, sock, mediaVars, hlsVars, notes, quota, env, escaped, injectVars, forgotten>>

\* ------------------------------------------------ createWebRTCTransport

NewTransport(r) == [room |-> r, closed |-> FALSE, ncl |-> 0]

ErrAck(t, m, e) ==
    [NoAck EXCEPT !.conn = tasks[t].conn, !.rid = tasks[t].rid, !.msg = m, !.err = e,
                  !.user = tasks[t].user, !.room = tasks[t].room]

\* Arrival of createWebRTCTransport, up to `await getRouter`.
StartCreateTransport(c) ==
    /\ CanSend(c, "createWebRTCTransport")
    /\ Free(c, "createWebRTCTransport")
    /\ Sent(c, "createWebRTCTransport")
    /\ sock' = [sock EXCEPT ![c].seq = @ + 1]
    /\ IF Joined(c)
       THEN tasks' = [tasks EXCEPT ![<<c, "createWebRTCTransport">>] =
                [NoTask EXCEPT !.pc = "ct_router", !.conn = c, !.rid = sock[c].seq + 1,
                               !.room = sock[c].roomId]]
       ELSE UNCHANGED tasks
    /\ UNCHANGED <<redis, redisQ, mediaVars, hlsVars, acks, notes>>

\* getRouter returned: the first createWebRtcTransport is awaited.
CtRouter(t) ==
    /\ tasks[t].pc = "ct_router"
    /\ tasks' = [tasks EXCEPT ![t].pc = "ct_first", ![t].rok = TRUE]
    /\ UNCHANGED <<redis, redisQ, sock, mediaVars, hlsVars, acks, notes, quota, env, escaped, injectVars, forgotten>>

\* The producer-direction transport is there (or the router was closed and the
\* call threw); the second createWebRtcTransport is awaited.
CtFirst(t) ==
    /\ tasks[t].pc = "ct_first"
    /\ IF tasks[t].rok
       THEN /\ transports' = Append(transports, NewTransport(tasks[t].room))
            /\ tasks' = [tasks EXCEPT ![t].pc = "ct_second", ![t].tr = Len(transports) + 1]
            /\ UNCHANGED acks
       ELSE /\ Ack(t, ErrAck(t, "createWebRTCTransport", "router closed"))
            /\ Finish(t)
            /\ UNCHANGED transports
    /\ UNCHANGED <<redis, redisQ, sock, producerInfo, consumerInfo, producers, consumers,
                   hlsVars, notes, quota, env, escaped, injectVars, forgotten>>

\* The consumer-direction transport is there: both are attached to the
\* records of the socket's current peer key and their parameters returned.
CtSecond(t) ==
    LET c == tasks[t].conn
        key == <<sock[c].roomId, sock[c].username>>
        t2 == Len(transports) + 1
    IN  /\ tasks[t].pc = "ct_second"
        /\ IF ~tasks[t].rok
           THEN /\ Ack(t, ErrAck(t, "createWebRTCTransport", "router closed"))
                /\ UNCHANGED mediaVars
           ELSE /\ transports' = Append(transports, NewTransport(tasks[t].room))
                /\ UNCHANGED <<producers, consumers>>
                /\ IF ~producerInfo[key].present
                   THEN /\ Ack(t, ErrAck(t, "createWebRTCTransport", "TypeError"))
                        /\ UNCHANGED <<producerInfo, consumerInfo>>
                   ELSE /\ producerInfo' = [producerInfo EXCEPT ![key].transport = tasks[t].tr]
                        /\ IF ~consumerInfo[key].present
                           THEN /\ Ack(t, ErrAck(t, "createWebRTCTransport", "TypeError"))
                                /\ UNCHANGED consumerInfo
                           ELSE /\ consumerInfo' = [consumerInfo EXCEPT ![key].transport = t2]
                                /\ Ack(t, [ErrAck(t, "createWebRTCTransport", "")
                                              EXCEPT !.id = tasks[t].tr])
        /\ Finish(t)
        /\ UNCHANGED <<redis, redisQ, sock, hlsVars, notes, quota, env, escaped, injectVars, forgotten>>

\* ---------------------------------------------------- transport-produce

NewProducer(tr, kind, tag) ==
    [tr |-> tr, kind |-> kind, tag |-> tag, closed |-> FALSE, ncl |-> 0, lkey |-> NoKey]

NewProducerNote(c, p) ==
    {[to |-> d, type |-> "new-producer", user |-> sock[c].username, id |-> p] :
        d \in InRoom(sock[c].roomId) \ {c}}

\* socket.to(roomId).emit('new-producer'), producer.on('@close', ...) and
\* callback({ id }): the end of the handler on each of its paths.
ProduceEnd(t, p, m) ==
    /\ SetM([m EXCEPT !.pr[p].lkey = <<tasks[t].room, tasks[t].user>>])
    /\ notes' = notes \cup NewProducerNote(tasks[t].conn, p)
    /\ Ack(t, [ErrAck(t, "transport-produce", "") EXCEPT !.id = p])
    /\ Finish(t)

\* Arrival of transport-produce, up to `await transport.produce`.
StartProduce(c, kind, tag) ==
    LET key == <<sock[c].roomId, sock[c].username>>
        task == [NoTask EXCEPT !.pc = "prod_produce", !.conn = c, !.rid = sock[c].seq + 1,
                               !.room = sock[c].roomId, !.user = sock[c].username,
                               !.kind = kind, !.tag = tag]
    IN  /\ CanSend(c, "transport-produce")
        /\ Free(c, "transport-produce")
        /\ Sent(c, "transport-produce")
        /\ sock' = [sock EXCEPT ![c].seq = @ + 1]
        /\ IF ~Joined(c)
           THEN UNCHANGED <<tasks, acks>>
           ELSE IF ~producerInfo[key].present \/ producerInfo[key].transport = 0
           THEN /\ acks' = acks \cup
                      {[NoAck EXCEPT !.conn = c, !.rid = sock[c].seq + 1,
                                     !.msg = "transport-produce",
                                     !.err = "Producer transport not found",
                                     !.user = key[2], !.room = key[1]]}
                /\ UNCHANGED tasks
           ELSE /\ tasks' = [tasks EXCEPT ![<<c, "transport-produce">>] =
                                [task EXCEPT !.tr = producerInfo[key].transport]]
                /\ UNCHANGED acks
        /\ UNCHANGED <<redis, redisQ, mediaVars, hlsVars, notes>>

\* transport.produce returned: the producer is recorded under its kind.  A
\* video producer in a room without the playback flag goes on to
\* `await getRouter`; any other producer is announced and acknowledged.
ProdProduced(t) ==
    LET c == tasks[t].conn
        key == <<tasks[t].room, tasks[t].user>>
        p == Len(producers) + 1
        m1 == [M EXCEPT !.pr = Append(producers,
                                  NewProducer(tasks[t].tr, tasks[t].kind, tasks[t].tag))]
        m2 == [m1 EXCEPT !.pi[key].producers[tasks[t].kind] = p]
    IN  /\ tasks[t].pc = "prod_produce"
        /\ IF transports[tasks[t].tr].closed
           THEN /\ Ack(t, ErrAck(t, "transport-produce", "transport closed"))
                /\ Finish(t)
                /\ UNCHANGED <<mediaVars, notes>>
           ELSE IF ~producerInfo[key].present
           THEN /\ SetM(m1)
                /\ Ack(t, ErrAck(t, "transport-produce", "TypeError"))
                /\ Finish(t)
                /\ UNCHANGED notes
           ELSE IF tasks[t].kind = "video" /\ sock[c].roomId \notin hlsActiveRooms
           THEN /\ SetM(m2)
                /\ tasks' = [tasks EXCEPT ![t].pc = "prod_router", ![t].prod = p]
                /\ UNCHANGED <<acks, notes>>
           ELSE ProduceEnd(t, p, m2)
        /\ UNCHANGED <<redis, redisQ, sock, hlsVars, quota, env, escaped, injectVars, forgotten>>

\* ---------------------------------------------------- startHlsRecording

\* A consumer created running instead of paused.
NewConsumerRunning(tr, p, key, c) ==
    [tr |-> tr, prod |-> p, paused |-> FALSE, closed |-> FALSE, ncl |-> 0,
     lkey |-> key, conn |-> c]

NewConsumer(tr, p, key, c) ==
    [tr |-> tr, prod |-> p, paused |-> TRUE, closed |-> FALSE, ncl |-> 0,
     lkey |-> key, conn |-> c]

\* A start that replaces a previous session without
\* `await prev.plainTransport?.close()`.
ProdRouterKeepsTransport(t) ==
    LET r == sock[tasks[t].conn].roomId
        prev == hlsSessions[r]
    IN  /\ tasks[t].pc = "prod_router"
        /\ tasks' = [tasks EXCEPT ![t].pc = "hls_transport", ![t].rok = TRUE,
                                  ![t].hroom = r]
        /\ IF prev.present
           THEN /\ ffmpegs' = Kill(ffmpegs, prev.ffmpeg)
                /\ SetM(CloseConsumer(M, prev.consumer))
                /\ hlsSessions' = [hlsSessions EXCEPT ![r] = NoSession]
           ELSE UNCHANGED <<ffmpegs, mediaVars, hlsSessions>>
        /\ forgotten' = Forget(r, "replace", CloseConsumer(M, prev.consumer))
        /\ UNCHANGED <<redis, redisQ, sock, hlsActiveRooms, acks, notes, quota, env, escaped,
                       injectVars>>

\* getRouter returned and startHlsRecording is entered: a previous session
\* of the room is killed, released and forgotten; then
\* `await router.createPlainTransport`.
ProdRouter(t) ==
    LET r == sock[tasks[t].conn].roomId
        prev == hlsSessions[r]
    IN  /\ tasks[t].pc = "prod_router"
        /\ tasks' = [tasks EXCEPT ![t].pc = "hls_transport", ![t].rok = TRUE,
                                  ![t].hroom = r]
        /\ IF prev.present
           THEN /\ ffmpegs' = Kill(ffmpegs, prev.ffmpeg)
                /\ SetM(ReleaseSession(M, prev))
                /\ hlsSessions' = [hlsSessions EXCEPT ![r] = NoSession]
           ELSE UNCHANGED <<ffmpegs, mediaVars, hlsSessions>>
        /\ forgotten' = Forget(r, "replace", ReleaseSession(M, prev))
        /\ UNCHANGED <<redis, redisQ, sock, hlsActiveRooms, acks, notes, quota, env, escaped,
                       injectVars>>

\* The relay transport is there; `await plainTransport.consume`.  On a closed
\* router the call throws and the produce handler carries on after its catch.
HlsTransport(t) ==
    /\ tasks[t].pc = "hls_transport"
    /\ IF tasks[t].rok
       THEN /\ transports' = Append(transports, NewTransport(tasks[t].hroom))
            /\ tasks' = [tasks EXCEPT ![t].pc = "hls_consume", ![t].pt = Len(transports) + 1]
            /\ UNCHANGED <<producerInfo, consumerInfo, producers, consumers, acks, notes>>
       ELSE ProduceEnd(t, tasks[t].prod, M)
    /\ UNCHANGED <<redis, redisQ, sock, hlsVars, quota, env, escaped, injectVars, forgotten>>

\* A start that stores the session as soon as ffmpeg is spawned, before
\* `await consumer.resume`.
HlsConsumeStoresEarly(t) ==
    /\ tasks[t].pc = "hls_consume"
    /\ IF transports[tasks[t].pt].closed \/ producers[tasks[t].prod].closed
       THEN /\ ProduceEnd(t, tasks[t].prod, M)
            /\ UNCHANGED <<ffmpegs, hlsSessions>>
       ELSE /\ consumers' = Append(consumers,
                                NewConsumer(tasks[t].pt, tasks[t].prod, NoKey, 0))
            /\ ffmpegs' = Append(ffmpegs,
                              [room |-> tasks[t].hroom, st |-> "running",
                               cons |-> Len(consumers) + 1, tr |-> tasks[t].pt])
            /\ hlsSessions' = [hlsSessions EXCEPT ![tasks[t].hroom] =
                    [present |-> TRUE, ffmpeg |-> Len(ffmpegs) + 1,
                     transport |-> tasks[t].pt, consumer |-> Len(consumers) + 1]]
            /\ tasks' = [tasks EXCEPT ![t].pc = "hls_resume",
                                      ![t].cons = Len(consumers) + 1,
                                      ![t].ff = Len(ffmpegs) + 1]
            /\ UNCHANGED <<producerInfo, consumerInfo, transports, producers, acks, notes>>
    /\ UNCHANGED <<redis, redisQ, sock, hlsActiveRooms, quota, env, escaped, injectVars, forgotten>>

\* The paused relay consumer is there: the descriptor is written, ffmpeg is
\* spawned and its handlers registered; `await consumer.resume`.
HlsConsume(t) ==
    /\ tasks[t].pc = "hls_consume"
    /\ IF transports[tasks[t].pt].closed \/ producers[tasks[t].prod].closed
       THEN /\ ProduceEnd(t, tasks[t].prod, M)
            /\ UNCHANGED ffmpegs
       ELSE /\ consumers' = Append(consumers,
                                NewConsumer(tasks[t].pt, tasks[t].prod, NoKey, 0))
            /\ ffmpegs' = Append(ffmpegs,
                              [room |-> tasks[t].hroom, st |-> "running",
                               cons |-> Len(consumers) + 1, tr |-> tasks[t].pt])
            /\ tasks' = [tasks EXCEPT ![t].pc = "hls_resume",
                                      ![t].cons = Len(consumers) + 1,
                                      ![t].ff = Len(ffmpegs) + 1]
            /\ UNCHANGED <<producerInfo, consumerInfo, transports, producers, acks, notes>>
    /\ UNCHANGED <<redis, redisQ, sock, hlsActiveRooms, hlsSessions, quota, env, escaped, injectVars, forgotten>>

\* A start whose rejection is not caught by the produce handler's inner
\* try/catch: the produce call is answered with the error.
HlsResumeUncaught(t, ok) ==
    LET r == tasks[t].hroom
        m1 == IF consumers[tasks[t].cons].closed THEN M
              ELSE [M EXCEPT !.co[tasks[t].cons].paused = FALSE]
    IN  /\ tasks[t].pc = "hls_resume"
        /\ ok \/ consumers[tasks[t].cons].closed
        /\ IF ok
           THEN /\ hlsSessions' = [hlsSessions EXCEPT ![r] =
                        [present |-> TRUE, ffmpeg |-> tasks[t].ff,
                         transport |-> tasks[t].pt, consumer |-> tasks[t].cons]]
                /\ hlsActiveRooms' = hlsActiveRooms \cup {sock[tasks[t].conn].roomId}
                /\ ProduceEnd(t, tasks[t].prod, m1)
           ELSE /\ Ack(t, ErrAck(t, "transport-produce", "resume failed"))
                /\ Finish(t)
                /\ UNCHANGED <<mediaVars, notes, hlsSessions, hlsActiveRooms>>
        /\ UNCHANGED <<redis, redisQ, sock, ffmpegs, quota, env, escaped, injectVars, forgotten>>

\* consumer.resume returned.  It resolves on an open consumer; on a consumer
\* closed in the meantime it resolves or rejects, depending on whether the
\* worker handled the request before the close.  Resolved: the session is
\* stored, the room flagged, and the produce handler finishes.  Rejected: the
\* produce handler finishes after its catch.
HlsResume(t, ok) ==
    LET r == tasks[t].hroom
        m1 == IF consumers[tasks[t].cons].closed THEN M
              ELSE [M EXCEPT !.co[tasks[t].cons].paused = FALSE]
    IN  /\ tasks[t].pc = "hls_resume"
        /\ ok \/ consumers[tasks[t].cons].closed
        /\ IF ok
           THEN /\ hlsSessions' = [hlsSessions EXCEPT ![r] =
                        [present |-> TRUE, ffmpeg |-> tasks[t].ff,
                         transport |-> tasks[t].pt, consumer |-> tasks[t].cons]]
                /\ hlsActiveRooms' = hlsActiveRooms \cup {sock[tasks[t].conn].roomId}
                /\ ProduceEnd(t, tasks[t].prod, m1)
           ELSE /\ ProduceEnd(t, tasks[t].prod, M)
                /\ UNCHANGED <<hlsSessions, hlsActiveRooms>>
        /\ UNCHANGED <<redis, redisQ, sock, ffmpegs, quota, env, escaped, injectVars, forgotten>>

\* ffmpeg.on('close'): the process has ended (by itself or killed).  The
\* session registered for the room, if any, is released and forgotten.
FfmpegClose(f) ==
    LET r == ffmpegs[f].room
    IN  /\ ffmpegs[f].st \in {"running", "killed", "failed"}
        /\ ffmpegs' = [ffmpegs EXCEPT ![f].st = "exited"]
        /\ IF hlsSessions[r].present
           THEN /\ SetM(ReleaseSession(M, hlsSessions[r]))
                /\ hlsSessions' = [hlsSessions EXCEPT ![r] = NoSession]
           ELSE UNCHANGED <<mediaVars, hlsSessions>>
        /\ forgotten' = Forget(r, "close", ReleaseSession(M, hlsSessions[r]))
        /\ UNCHANGED <<redis, redisQ, sock, hlsActiveRooms, tasks, acks, notes, quota, env,
                       escaped, injectVars>>

\* ffmpeg.on('error'): the spawn failed.  The consumer and relay transport of
\* this start are closed and the room's session record is deleted.
FfmpegError(f) ==
    /\ ffmpegs[f].st = "running"
    /\ ffmpegs' = [ffmpegs EXCEPT ![f].st = "failed"]
    /\ SetM(CloseTransport(CloseConsumer(M, ffmpegs[f].cons), ffmpegs[f].tr))
    /\ hlsSessions' = [hlsSessions EXCEPT ![ffmpegs[f].room] = NoSession]
    /\ forgotten' = Forget(ffmpegs[f].room, "error",
                           CloseTransport(CloseConsumer(M, ffmpegs[f].cons), ffmpegs[f].tr))
    /\ UNCHANGED <<redis, redisQ, sock, hlsActiveRooms, tasks, acks, notes, quota, env,
                   escaped, injectVars>>

\* ------------------------------------------------ injectFileIntoMediasoup

\* Calls of injectFileIntoMediasoup per room.
MaxInject == 1

\* The router handed to a call in flight for room r has been closed.
InjectStale(calls, r) == [calls EXCEPT ![r].rok = FALSE]

\* The call ends: by returning the subprocess or by throwing to its caller.
InjectReturn(r) ==
    injectCalls' = [injectCalls EXCEPT ![r] = [NoInjectCall EXCEPT !.n = injectCalls[r].n]]

\* injectFileIntoMediasoup({ roomId, router }) is called with the room's
\* router: an old session of the room is killed, its producers and transports
\* closed and its record deleted; then `await router.createPlainTransport`.
StartInject(r) ==
    LET old == injectSessions[r]
        m1 == CloseProducer(CloseProducer(M, old.audioProducer), old.videoProducer)
        m2 == CloseTransport(CloseTransport(m1, old.audioTransport), old.videoTransport)
    IN  /\ injectCalls[r].pc = "idle"
        /\ injectCalls[r].n < MaxInject
        /\ injectCalls' = [injectCalls EXCEPT ![r] =
                [NoInjectCall EXCEPT !.pc = "inj_audio_transport", !.rok = TRUE,
                                     !.n = injectCalls[r].n + 1]]
        /\ IF old.present
           THEN /\ injectFfmpegs' = Kill(injectFfmpegs, old.ffmpeg)
                /\ SetM(m2)
                /\ injectSessions' = [injectSessions EXCEPT ![r] = NoInjectSession]
           ELSE UNCHANGED <<injectFfmpegs, mediaVars, injectSessions>>
        /\ UNCHANGED <<redis, redisQ, sock, hlsVars, tasks, acks, notes, quota, env, escaped,
                       forgotten>>

\* The audio relay transport is there (or the router was closed and the call
\* threw); the second `await router.createPlainTransport`.
InjAudioTransport(r) ==
    /\ injectCalls[r].pc = "inj_audio_transport"
    /\ IF injectCalls[r].rok
       THEN /\ transports' = Append(transports, NewTransport(r))
            /\ injectCalls' = [injectCalls EXCEPT ![r].pc = "inj_video_transport",
                                                  ![r].audioTransport = Len(transports) + 1]
       ELSE /\ InjectReturn(r)
            /\ UNCHANGED transports
    /\ UNCHANGED <<redis, redisQ, sock, producerInfo, consumerInfo, producers, consumers,
                   hlsVars, tasks, acks, notes, quota, env, escaped, injectSessions,
                   injectFfmpegs, forgotten>>

\* The video relay transport is there; `await audioTransport.produce`.
InjVideoTransport(r) ==
    /\ injectCalls[r].pc = "inj_video_transport"
    /\ IF injectCalls[r].rok
       THEN /\ transports' = Append(transports, NewTransport(r))
            /\ injectCalls' = [injectCalls EXCEPT ![r].pc = "inj_audio_producer",
                                                  ![r].videoTransport = Len(transports) + 1]
       ELSE /\ InjectReturn(r)
            /\ UNCHANGED transports
    /\ UNCHANGED <<redis, redisQ, sock, producerInfo, consumerInfo, producers, consumers,
                   hlsVars, tasks, acks, notes, quota, env, escaped, injectSessions,
                   injectFfmpegs, forgotten>>

\* The audio producer is there (or its transport was closed and the call
\* threw); `await videoTransport.produce`.
InjAudioProducer(r) ==
    /\ injectCalls[r].pc = "inj_audio_producer"
    /\ IF ~transports[injectCalls[r].audioTransport].closed
       THEN /\ producers' = Append(producers,
                                NewProducer(injectCalls[r].audioTransport, "audio", ""))
            /\ injectCalls' = [injectCalls EXCEPT ![r].pc = "inj_video_producer",
                                                  ![r].audioProducer = Len(producers) + 1]
       ELSE /\ InjectReturn(r)
            /\ UNCHANGED producers
    /\ UNCHANGED <<redis, redisQ, sock, producerInfo, consumerInfo, transports, consumers,
                   hlsVars, tasks, acks, notes, quota, env, escaped, injectSessions,
                   injectFfmpegs, forgotten>>

\* The video producer is there: ffmpeg is spawned, its handlers registered,
\* the session stored and the subprocess returned.
InjVideoProducer(r) ==
    /\ injectCalls[r].pc = "inj_video_producer"
    /\ IF ~transports[injectCalls[r].videoTransport].closed
       THEN /\ producers' = Append(producers,
                                NewProducer(injectCalls[r].videoTransport, "video", ""))
            /\ injectFfmpegs' = Append(injectFfmpegs,
                    [room |-> r, st |-> "running",
                     audioTransport |-> injectCalls[r].audioTransport,
                     videoTransport |-> injectCalls[r].videoTransport,
                     audioProducer |-> injectCalls[r].audioProducer,
                     videoProducer |-> Len(producers) + 1])
            /\ injectSessions' = [injectSessions EXCEPT ![r] =
                    [present |-> TRUE, ffmpeg |-> Len(injectFfmpegs) + 1,
                     audioTransport |-> injectCalls[r].audioTransport,
                     videoTransport |-> injectCalls[r].videoTransport,
                     audioProducer |-> injectCalls[r].audioProducer,
                     videoProducer |-> Len(producers) + 1]]
       ELSE UNCHANGED <<producers, injectFfmpegs, injectSessions>>
    /\ InjectReturn(r)
    /\ UNCHANGED <<redis, redisQ, sock, producerInfo, consumerInfo, transports, consumers,
                   hlsVars, tasks, acks, notes, quota, env, escaped, forgotten>>

\* ffmpeg.on('close', ...) of an injection subprocess: the exit is logged.
InjectFfmpegClose(f) ==
    /\ injectFfmpegs[f].st \in {"running", "killed", "failed"}
    /\ injectFfmpegs' = [injectFfmpegs EXCEPT ![f].st = "exited"]
    /\ UNCHANGED <<redis, redisQ, sock, mediaVars, hlsVars, tasks, acks, notes, quota, env,
                   escaped, injectSessions, injectCalls, forgotten>>

\* ffmpeg.on('error', ...) of an injection subprocess: the failure is logged.
InjectFfmpegError(f) ==
    /\ injectFfmpegs[f].st = "running"
    /\ injectFfmpegs' = [injectFfmpegs EXCEPT ![f].st = "failed"]
    /\ UNCHANGED <<redis, redisQ, sock, mediaVars, hlsVars, tasks, acks, notes, quota, env,
                   escaped, injectSessions, injectCalls, forgotten>>

InjectSteps(r) ==
    \/ InjAudioTransport(r)
    \/ InjVideoTransport(r)
    \/ InjAudioProducer(r)
    \/ InjVideoProducer(r)

\* -------------------------------------------------------------- consume

\* Arrival of consume, up to `await getRouter`.
StartConsume(c, pid) ==
    /\ CanSend(c, "consume")
    /\ Free(c, "consume")
    /\ Sent(c, "consume")
    /\ sock' = [sock EXCEPT ![c].seq = @ + 1]
    /\ IF Joined(c)
       THEN tasks' = [tasks EXCEPT ![<<c, "consume">>] =
                [NoTask EXCEPT !.pc = "cons_router", !.conn = c, !.rid = sock[c].seq + 1,
                               !.room = sock[c].roomId, !.arg = pid]]
       ELSE UNCHANGED tasks
    /\ UNCHANGED <<redis, redisQ, mediaVars, hlsVars, acks, notes>>

\* router.canConsume({ producerId, rtpCapabilities }): the router knows an
\* open producer of that id (the client's capabilities are the router's own).
canConsume(r, pid) ==
    /\ pid \in DOMAIN producers
    /\ ~producers[pid].closed
    /\ transports[producers[pid].tr].room = r

\* getRouter returned: the transport check, the compatibility check, and
\* `await transport.consume`.  When canConsume is false the handler ends
\* without calling back.
ConsRouter(t) ==
    LET c == tasks[t].conn
        key == <<sock[c].roomId, sock[c].username>>
    IN  /\ tasks[t].pc = "cons_router"
        /\ IF ~consumerInfo[key].present \/ consumerInfo[key].transport = 0
           THEN /\ Ack(t, ErrAck(t, "consume", "Consumer transport not found."))
                /\ Finish(t)
           ELSE IF canConsume(tasks[t].room, tasks[t].arg)
           THEN /\ tasks' = [tasks EXCEPT ![t].pc = "cons_consume",
                                          ![t].user = key[2], ![t].room = key[1],
                                          ![t].tr = consumerInfo[key].transport]
                /\ UNCHANGED acks
           ELSE /\ Finish(t)
                /\ UNCHANGED acks
        /\ UNCHANGED <<redis, redisQ, sock, mediaVars, hlsVars, notes, quota, env, escaped, injectVars, forgotten>>

\* transport.consume returned: the paused consumer is recorded under its own
\* id, its 'producerclose' listener is registered and its parameters are
\* returned.  When the peer's record is gone, `consumerInfo.get(peerKey)!`
\* throws before the listener is registered.
ConsConsumed(t) ==
    LET key == <<tasks[t].room, tasks[t].user>>
        cid == Len(consumers) + 1
    IN  /\ tasks[t].pc = "cons_consume"
        /\ IF transports[tasks[t].tr].closed \/ producers[tasks[t].arg].closed
           THEN /\ Ack(t, ErrAck(t, "consume", "consume failed"))
                /\ UNCHANGED <<consumers, consumerInfo>>
           ELSE IF ~consumerInfo[key].present
           THEN /\ consumers' = Append(consumers,
                        NewConsumer(tasks[t].tr, tasks[t].arg, NoKey, tasks[t].conn))
                /\ Ack(t, ErrAck(t, "consume", "TypeError"))
                /\ UNCHANGED consumerInfo
           ELSE /\ consumers' = Append(consumers,
                        NewConsumer(tasks[t].tr, tasks[t].arg, key, tasks[t].conn))
                /\ consumerInfo' = [consumerInfo EXCEPT ![key].consumers = @ \cup {cid}]
                /\ Ack(t, [ErrAck(t, "consume", "") EXCEPT !.id = cid])
        /\ Finish(t)
        /\ UNCHANGED <<redis, redisQ, sock, producerInfo, transports, producers, hlsVars,
                       notes, quota, env, escaped, injectVars, forgotten>>

\* A 'producerclose' listener without
\* `consumerInfo.get(peerKey)?.consumers.delete(consumer.id)`.
ProducerClosedKeepsEntry(cid) ==
    LET co == consumers[cid]
    IN  /\ ~co.closed
        /\ producers[co.prod].closed
        /\ consumers' = [consumers EXCEPT ![cid].closed = TRUE]
        /\ IF co.lkey # NoKey
           THEN notes' = notes \cup
                    {[to |-> co.conn, type |-> "consumer-closed", user |-> "", id |-> cid]}
           ELSE UNCHANGED notes
        /\ UNCHANGED <<redis, redisQ, sock, producerInfo, consumerInfo, transports, producers,
                       hlsVars, tasks, acks, quota, env, escaped, injectVars, forgotten>>

\* consumer.on('producerclose'): the worker reports that the consumer's
\* producer is gone.  The consumer closes by itself; the handler tells the
\* consuming connection and drops the consumer from its peer's record.  The
\* relay consumer of a playback session has no such handler.
ProducerClosed(cid) ==
    LET co == consumers[cid]
    IN  /\ ~co.closed
        /\ producers[co.prod].closed
        /\ consumers' = [consumers EXCEPT ![cid].closed = TRUE]
        /\ IF co.lkey # NoKey
           THEN /\ notes' = notes \cup
                      {[to |-> co.conn, type |-> "consumer-closed", user |-> "", id |-> cid]}
                /\ IF consumerInfo[co.lkey].present
                   THEN consumerInfo' = [consumerInfo EXCEPT ![co.lkey].consumers = @ \ {cid}]
                   ELSE UNCHANGED consumerInfo
           ELSE UNCHANGED <<notes, consumerInfo>>
        /\ UNCHANGED <<redis, redisQ, sock, producerInfo, transports, producers, hlsVars,
                       tasks, acks, quota, env, escaped, injectVars, forgotten>>

\* ------------------------------------------------------ consumer-resume

\* consumer-resume that takes any consumer of the engine, in the caller's
\* record or not.
StartResumeAny(c, cid) ==
    LET key == <<sock[c].roomId, sock[c].username>>
    IN  /\ CanSend(c, "consumer-resume")
        /\ Free(c, "consumer-resume")
        /\ Sent(c, "consumer-resume")
        /\ IF Joined(c) /\ cid \in DOMAIN consumers
           THEN tasks' = [tasks EXCEPT ![<<c, "consumer-resume">>] =
                    [NoTask EXCEPT !.pc = "res_resume", !.conn = c, !.room = key[1],
                                   !.user = key[2], !.cons = cid]]
           ELSE UNCHANGED tasks
        /\ UNCHANGED <<redis, redisQ, sock, mediaVars, hlsVars, acks, notes>>

\* Arrival of consumer-resume (it has no acknowledgement): the consumer is
\* looked up by id in the caller's record; a consumer found is resumed,
\* `await consumer.resume()`.
StartResume(c, cid) ==
    LET key == <<sock[c].roomId, sock[c].username>>
    IN  /\ CanSend(c, "consumer-resume")
        /\ Free(c, "consumer-resume")
        /\ Sent(c, "consumer-resume")
        /\ IF Joined(c) /\ consumerInfo[key].present /\ cid \in consumerInfo[key].consumers
           THEN tasks' = [tasks EXCEPT ![<<c, "consumer-resume">>] =
                    [NoTask EXCEPT !.pc = "res_resume", !.conn = c, !.room = key[1],
                                   !.user = key[2], !.cons = cid]]
           ELSE UNCHANGED tasks
        /\ UNCHANGED <<redis, redisQ, sock, mediaVars, hlsVars, acks, notes>>

\* consumer.resume returned.  It resolves on an open consumer; on a consumer
\* closed in the meantime it resolves or rejects.  The handler has no
\* try/catch: a rejection leaves it.
ResumeDone(t, ok) ==
    LET cid == tasks[t].cons
    IN  /\ tasks[t].pc = "res_resume"
        /\ ok \/ consumers[cid].closed
        /\ IF ok /\ ~consumers[cid].closed
           THEN consumers' = [consumers EXCEPT ![cid].paused = FALSE]
           ELSE UNCHANGED consumers
        /\ IF ok THEN UNCHANGED escaped
           ELSE escaped' = escaped \cup {[conn |-> tasks[t].conn, msg |-> "consumer-resume"]}
        /\ Finish(t)
        /\ UNCHANGED <<redis, redisQ, sock, producerInfo, consumerInfo, transports,
                       producers, hlsVars, acks, notes, quota, env, injectVars, forgotten>>

\* ------------------------------- transport-connect, transport-recv-connect

\* `await producerInfo.get(peerKey)?.producerTransport.connect(...)` and its
\* consumer-side twin; neither has an acknowledgement or a try/catch.  Without
\* a record nothing is called; with a record whose transport is still null the
\* member access throws; connect() on a closed transport rejects.  The DTLS
\* state of an open transport is not part of the state.
TransportConnect(c, k) ==
    LET key == <<sock[c].roomId, sock[c].username>>
        tr == IF k = "transport-connect" THEN producerInfo[key].transport
              ELSE consumerInfo[key].transport
        there == IF k = "transport-connect" THEN producerInfo[key].present
                 ELSE consumerInfo[key].present
    IN  /\ CanSend(c, k)
        /\ quota' = [quota EXCEPT ![c][k] = @ - 1]
        /\ IF Joined(c) /\ there /\ (tr = 0 \/ transports[tr].closed)
           THEN escaped' = escaped \cup {[conn |-> c, msg |-> k]}
           ELSE UNCHANGED escaped
        /\ UNCHANGED <<redis, redisQ, sock, mediaVars, hlsVars, tasks, acks, notes, env,
                       injectVars, forgotten>>

\* --------------------------------------------------------------- hangup

Hangup(c) ==
    /\ CanSend(c, "hangup")
    /\ Sent(c, "hangup")
    /\ IF Joined(c)
       THEN /\ SetM(cleanupPeer(M, <<sock[c].roomId, sock[c].username>>))
            /\ notes' = notes \cup PeerLeft(sock[c].roomId, sock[c].username)
       ELSE UNCHANGED <<mediaVars, notes>>
    /\ UNCHANGED <<redis, redisQ, sock, hlsVars, tasks, acks>>

\* ------------------------------------------------------------- /hls/stop

\* app.post('/hls/stop'): stopHlsRecording(roomId) for the room named in the
\* request; the playback flag of the room is not touched.
HlsStop(r) ==
    /\ SetM(StopMedia(M, r))
    /\ ffmpegs' = StopFfmpegs(r)
    /\ hlsSessions' = StopSessions(r)
    /\ forgotten' = StopForgets(M, r)
    /\ UNCHANGED <<redis, redisQ, sock, hlsActiveRooms, tasks, acks, notes, quota, env,
                   escaped, injectVars>>

\* ---------------------------------------------------------- end-meeting

\* Arrival of end-meeting, up to `await redisClient.get(roomKey)`.
StartEndMeeting(c) ==
    /\ CanSend(c, "end-meeting")
    /\ Free(c, "end-meeting")
    /\ Sent(c, "end-meeting")
    /\ IF sock[c].roomId = ""
       THEN UNCHANGED <<tasks, redisQ>>
       ELSE /\ tasks' = [tasks EXCEPT ![<<c, "end-meeting">>] =
                    [NoTask EXCEPT !.pc = "end_get", !.conn = c,
                                   !.room = sock[c].roomId,
                                   !.exists = redis[sock[c].roomId].exists,
                                   !.peers = redis[sock[c].roomId].peers]]
            /\ redisQ' = Append(redisQ, <<c, "end-meeting">>)
    /\ UNCHANGED <<redis, sock, mediaVars, hlsVars, acks, notes>>

\* The reply of get: every listed peer is cleaned up, then `await del`.
EndGet(t) ==
    /\ tasks[t].pc = "end_get"
    /\ AwaitsRedis(t)
    /\ IF ~tasks[t].exists
       THEN /\ Finish(t)
            /\ redisQ' = Tail(redisQ)
            /\ UNCHANGED <<redis, mediaVars>>
       ELSE /\ SetM(CleanupPeers(M, sock[tasks[t].conn].roomId, tasks[t].peers))
            /\ redis' = [redis EXCEPT ![tasks[t].room] = NoRoomData]
            /\ redisQ' = Append(Tail(redisQ), t)
            /\ tasks' = [tasks EXCEPT ![t].pc = "end_del"]
    /\ UNCHANGED <<sock, hlsVars, acks, notes, quota, env, escaped, injectVars, forgotten>>

\* The reply of del: `await getRouter`.
EndDel(t) ==
    /\ tasks[t].pc = "end_del"
    /\ AwaitsRedis(t)
    /\ redisQ' = Tail(redisQ)
    /\ tasks' = [tasks EXCEPT ![t].pc = "end_router"]
    /\ UNCHANGED <<redis, sock, mediaVars, hlsVars, acks, notes, quota, env, escaped, injectVars, forgotten>>

\* getRouter returned: router.close(), stopHlsRecording, the flag is dropped
\* and meeting-ended is broadcast.
EndRouter(t) ==
    LET r == sock[tasks[t].conn].roomId
    IN  /\ tasks[t].pc = "end_router"
        /\ SetM(StopMedia(RouterClose(M, r), r))
        /\ ffmpegs' = StopFfmpegs(r)
        /\ hlsSessions' = StopSessions(r)
        /\ hlsActiveRooms' = hlsActiveRooms \ {r}
        /\ notes' = notes \cup MeetingEnded(r)
        /\ tasks' = [RouterStale(tasks, r) EXCEPT ![t] = NoTask]
        /\ injectCalls' = InjectStale(injectCalls, r)
        /\ forgotten' = StopForgets(RouterClose(M, r), r)
        /\ UNCHANGED <<redis, redisQ, sock, acks, quota, env, escaped, injectSessions,
                       injectFfmpegs>>

\* ------------------------------------------------------------ disconnect

\* The connection drops.  The socket has left its rooms when the handler
\* runs: cleanupPeer, then `await redisClient.get(roomKey)`.
Disconnect(c) ==
    /\ sock[c].connected
    /\ quota[c]["disconnect"] > 0
    /\ Sent(c, "disconnect")
    /\ sock' = [sock EXCEPT ![c].connected = FALSE, ![c].rooms = {}]
    /\ IF Joined(c)
       THEN /\ SetM(cleanupPeer(M, <<sock[c].roomId, sock[c].username>>))
            /\ tasks' = [tasks EXCEPT ![<<c, "disconnect">>] =
                    [NoTask EXCEPT !.pc = "disc_get", !.conn = c,
                                   !.room = sock[c].roomId, !.user = sock[c].username,
                                   !.exists = redis[sock[c].roomId].exists,
                                   !.peers = redis[sock[c].roomId].peers]]
            /\ redisQ' = Append(redisQ, <<c, "disconnect">>)
       ELSE UNCHANGED <<mediaVars, tasks, redisQ>>
    /\ UNCHANGED <<redis, hlsVars, acks, notes>>

\* roomData.peers.filter(p => p !== socket.username)
RECURSIVE Without(_, _)
Without(peers, u) ==
    IF peers = <<>> THEN <<>>
    ELSE IF Head(peers) = u THEN Without(Tail(peers), u)
    ELSE <<Head(peers)>> \o Without(Tail(peers), u)

\* The reply of get: the list without the peer is written back, or the
\* record is deleted when nobody is left.
DiscGet(t) ==
    LET rest == Without(tasks[t].peers, tasks[t].user)
    IN  /\ tasks[t].pc = "disc_get"
        /\ AwaitsRedis(t)
        /\ IF ~tasks[t].exists
           THEN Finish(t) /\ redisQ' = Tail(redisQ) /\ UNCHANGED redis
           ELSE /\ redisQ' = Append(Tail(redisQ), t)
                /\ IF Len(rest) > 0
                   THEN /\ redis' = [redis EXCEPT ![tasks[t].room] =
                                        [exists |-> TRUE, peers |-> rest]]
                        /\ tasks' = [tasks EXCEPT ![t].pc = "disc_set", ![t].peers = rest]
                   ELSE /\ redis' = [redis EXCEPT ![tasks[t].room] = NoRoomData]
                        /\ tasks' = [tasks EXCEPT ![t].pc = "disc_del", ![t].peers = rest]
        /\ UNCHANGED <<sock, mediaVars, hlsVars, acks, notes, quota, env, escaped, injectVars, forgotten>>

\* The reply of set: peer-left goes to the rest of the room.
DiscSet(t) ==
    /\ tasks[t].pc = "disc_set"
    /\ AwaitsRedis(t)
    /\ redisQ' = Tail(redisQ)
    /\ notes' = notes \cup PeerLeft(tasks[t].room, tasks[t].user)
    /\ Finish(t)
    /\ UNCHANGED <<redis, sock, mediaVars, hlsVars, acks, quota, env, escaped, injectVars, forgotten>>

\* The reply of del: `await getRouter`.
DiscDel(t) ==
    /\ tasks[t].pc = "disc_del"
    /\ AwaitsRedis(t)
    /\ redisQ' = Tail(redisQ)
    /\ tasks' = [tasks EXCEPT ![t].pc = "disc_router"]
    /\ UNCHANGED <<redis, sock, mediaVars, hlsVars, acks, notes, quota, env, escaped, injectVars, forgotten>>

\* getRouter returned: router.close(), stopHlsRecording, the flag is dropped.
DiscRouter(t) ==
    LET r == tasks[t].room
    IN  /\ tasks[t].pc = "disc_router"
        /\ SetM(StopMedia(RouterClose(M, r), r))
        /\ ffmpegs' = StopFfmpegs(r)
        /\ hlsSessions' = StopSessions(r)
        /\ hlsActiveRooms' = hlsActiveRooms \ {r}
        /\ tasks' = [RouterStale(tasks, r) EXCEPT ![t] = NoTask]
        /\ injectCalls' = InjectStale(injectCalls, r)
        /\ forgotten' = StopForgets(RouterClose(M, r), r)
        /\ UNCHANGED <<redis, redisQ, sock, acks, notes, quota, env, escaped,
                       injectSessions, injectFfmpegs>>

\* ------------------------------------------------------------------ Init

NoQuota == [k \in MsgKinds |-> 0]

\* The state after the module is loaded and startServer() has run.
Fresh ==
    /\ redis = [r \in Rooms |-> NoRoomData]
    /\ redisQ = <<>>
    /\ sock = [c \in Conns |-> NoSock]
    /\ producerInfo = [k \in PeerKeys |-> NoProducerInfo]
    /\ consumerInfo = [k \in PeerKeys |-> NoConsumerInfo]
    /\ transports = <<>>
    /\ producers = <<>>
    /\ consumers = <<>>
    /\ hlsActiveRooms = {}
    /\ hlsSessions = [r \in Rooms |-> NoSession]
    /\ ffmpegs = <<>>
    /\ tasks = [t \in TaskIds |-> NoTask]
    /\ acks = {}
    /\ notes = {}
    /\ escaped = {}
    /\ injectSessions = [r \in Rooms |-> NoInjectSession]
    /\ injectCalls = [r \in Rooms |-> NoInjectCall]
    /\ injectFfmpegs = <<>>
    /\ forgotten = {}

\* ------------------------------------------------- admission (joinRoom)

\* Joins and disconnects each connection may issue.
MaxJoin == 2
MaxDisconnect == 1

JoinQuota ==
    [NoQuota EXCEPT !["joinRoom"] = MaxJoin, !["disconnect"] = MaxDisconnect]

\* The client of part_003 joins under one display name per connection.
UserOf(c) == CASE c = 1 -> "alice" [] c = 2 -> "bob" [] OTHER -> "carol"

InitJoin ==
    /\ Fresh
    /\ quota = [c \in Conns |-> IF c \in {1, 2} THEN JoinQuota ELSE NoQuota]
    /\ env = [overlap |-> TRUE]

JoinSteps(t) ==
    \/ JoinExists(t)
    \/ JoinCreate(t)
    \/ JoinRead(t)
    \/ JoinGet(t)
    \/ JoinSet(t)

DiscSteps(t) ==
    \/ DiscGet(t)
    \/ DiscSet(t)
    \/ DiscDel(t)
    \/ DiscRouter(t)

NextJoin ==
    \/ \E c \in Conns, r \in OneRoom, cr \in BOOLEAN : StartJoin(c, UserOf(c), r, cr)
    \/ \E c \in Conns : Disconnect(c)
    \/ \E t \in TaskIds : JoinSteps(t) \/ DiscSteps(t)

SpecJoin == InitJoin /\ [][NextJoin]_vars

JoinAcks == {a \in acks : a.msg = "joinRoom"}

JoinPcs == {"join_exists", "join_router", "join_get", "join_set"}

JoinInFlight(key) ==
    \E c \in Conns :
        /\ tasks[<<c, "joinRoom">>].pc \in JoinPcs
        /\ <<tasks[<<c, "joinRoom">>].room, tasks[<<c, "joinRoom">>].user>> = key

\* C6: a peer is registered in the session table only when its join
\* succeeds: a key that holds a producer or consumer record has a join that
\* was acknowledged without error, or one still in flight.
C6_RegisteredOnlyOnSuccess ==
    \A key \in PeerKeys :
        (producerInfo[key].present \/ consumerInfo[key].present) =>
            \/ JoinInFlight(key)
            \/ \E a \in JoinAcks : a.err = "" /\ <<a.room, a.user>> = key

C8_CreateNeverOverwrites ==
    [][\A c \in Conns :
          LET t == <<c, "joinRoom">>
          IN  (tasks[t].pc = "join_router" /\ tasks[t].creator /\ tasks'[t].pc = "join_set")
                  => ~redis[tasks[t].room].exists]_vars

\* C9: a creator join to a room without a record registers the peer with
\* empty producer and consumer maps and no transports, writes the record with
\* peers exactly [username], and is acknowledged with the capabilities and no
\* error.
C9_CreatorJoin ==
    [][\A c \in Conns :
          LET t == <<c, "joinRoom">>
              key == <<tasks'[t].room, tasks'[t].user>>
          IN  /\ (tasks[t].pc = "idle" /\ tasks'[t].pc = "join_exists")
                    => /\ producerInfo'[key] = EmptyProducerInfo
                       /\ consumerInfo'[key] = EmptyConsumerInfo
              /\ (tasks[t].pc = "join_exists" /\ tasks[t].creator /\ ~tasks[t].exists
                    /\ tasks'[t].pc # tasks[t].pc)
                    => tasks'[t].pc = "join_router" /\ acks' = acks
              /\ (tasks[t].pc = "join_router" /\ tasks[t].creator /\ tasks'[t].pc # tasks[t].pc)
                    => /\ redis'[tasks[t].room] =
                            [exists |-> TRUE, peers |-> <<tasks[t].user>>]
                       /\ tasks'[t].pc = "join_set"
              /\ (tasks[t].pc = "join_set" /\ tasks[t].creator /\ tasks'[t].pc # tasks[t].pc)
                    => \E a \in acks' \ acks :
                          /\ a.conn = c /\ a.rid = tasks[t].rid /\ a.msg = "joinRoom"
                          /\ a.err = "" /\ a.caps /\ a.prods = {}]_vars

C9_Witness ==
    \E a \in JoinAcks :
        /\ a.creator /\ a.err = "" /\ a.caps
        /\ redis[a.room] = [exists |-> TRUE, peers |-> <<a.user>>]
        /\ producerInfo[<<a.room, a.user>>] = EmptyProducerInfo
        /\ consumerInfo[<<a.room, a.user>>] = EmptyConsumerInfo

\* ------------------------------------------------------ handler steps

CtSteps(t) ==
    \/ CtRouter(t)
    \/ CtFirst(t)
    \/ CtSecond(t)

ProduceSteps(t) ==
    \/ ProdProduced(t)
    \/ ProdRouter(t)
    \/ HlsTransport(t)
    \/ HlsConsume(t)
    \/ \E ok \in BOOLEAN : HlsResume(t, ok)

ConsumeSteps(t) ==
    \/ ConsRouter(t)
    \/ ConsConsumed(t)

EndSteps(t) ==
    \/ EndGet(t)
    \/ EndDel(t)
    \/ EndRouter(t)

\* Every scenario below starts from the fresh server.  Connection 1 creates
\* the room and connection 2 joins it; each joins and asks for its transports
\* once, and a connection sends its next request when the previous one has
\* been answered (as the client of part_003 does).
Scenario(q1, q2) ==
    /\ Fresh
    /\ quota = [c \in Conns |-> CASE c = 1 -> q1 [] c = 2 -> q2 [] OTHER -> NoQuota]
    /\ env = [overlap |-> FALSE]

SetupQuota == [NoQuota EXCEPT !["joinRoom"] = 1, !["createWebRTCTransport"] = 1]

\* ------------------------------- playback (video produce and end-meeting)

\* Video producers each connection may create, and end-meeting requests the
\* room's creator may send.
MaxVideo == 1
MaxEnd == 1

InitPlayback ==
    Scenario([SetupQuota EXCEPT !["transport-produce"] = MaxVideo, !["end-meeting"] = MaxEnd],
             [SetupQuota EXCEPT !["transport-produce"] = MaxVideo])

NextPlayback ==
    \/ \E c \in Conns, r \in OneRoom : StartJoin(c, UserOf(c), r, c = 1)
    \/ \E c \in Conns : StartCreateTransport(c)
    \/ \E c \in Conns : StartProduce(c, "video", sock[c].username)
    \/ \E c \in Conns : StartEndMeeting(c)
    \/ \E t \in TaskIds : JoinSteps(t) \/ CtSteps(t) \/ ProduceSteps(t) \/ EndSteps(t)
    \/ \E f \in DOMAIN ffmpegs : FfmpegClose(f) \/ FfmpegError(f)

SpecPlayback == InitPlayback /\ [][NextPlayback]_vars

Running(r) == {f \in DOMAIN ffmpegs : ffmpegs[f].room = r /\ ffmpegs[f].st = "running"}

HlsPcs == {"hls_transport", "hls_consume", "hls_resume"}

StartsInFlight(ts, r) == {t \in TaskIds : ts[t].pc \in HlsPcs /\ ts[t].hroom = r}

\* C1: concurrent video produce requests in a room cause one spawn: a room
\* never has two transcoding subprocesses running.
C1_OneSpawnPerRoom ==
    \A r \in Rooms : Cardinality(Running(r)) <= 1

\* C2: when the room was deleted while a playback start of a joined peer was
\* suspended (the start holds the router that the deletion closed), then once
\* that start, the last one in flight for the room, has finished, the room
\* has no session record, no running subprocess and no playback-active flag.
C2_DeletionStopsPlayback ==
    [][\A t \in TaskIds :
          (/\ tasks[t].pc \in HlsPcs
           /\ \E a \in JoinAcks : a.err = "" /\ a.conn = tasks[t].conn
           /\ ~tasks[t].rok
           /\ ~redis[tasks[t].hroom].exists
           /\ tasks'[t].pc = "idle"
           /\ StartsInFlight(tasks', tasks[t].hroom) = {})
              => /\ ~hlsSessions'[tasks[t].hroom].present
                 /\ tasks[t].hroom \notin hlsActiveRooms'
                 /\ \A f \in DOMAIN ffmpegs' :
                       ffmpegs'[f].room = tasks[t].hroom => ffmpegs'[f].st # "running"]_vars

\* ------------------------------------------- produce and consume

\* Producers connection 1 may create and consume requests connection 2 may
\* send; a consume request names a producer id up to one past the last.
MaxProduce == 2
MaxConsume == 1

InitProduce ==
    Scenario([SetupQuota EXCEPT !["transport-produce"] = MaxProduce],
             [SetupQuota EXCEPT !["consume"] = MaxConsume])

NextProduce ==
    \/ \E c \in Conns, r \in OneRoom : StartJoin(c, UserOf(c), r, c = 1)
    \/ \E c \in Conns : StartCreateTransport(c)
    \/ \E c \in Conns, k \in Kinds : StartProduce(c, k, sock[c].username)
    \/ \E c \in Conns, p \in 1..(Len(producers) + 1) : StartConsume(c, p)
    \/ \E t \in TaskIds : JoinSteps(t) \/ CtSteps(t) \/ ProduceSteps(t) \/ ConsumeSteps(t)
    \/ \E f \in DOMAIN ffmpegs : FfmpegClose(f) \/ FfmpegError(f)

SpecProduce == InitProduce /\ [][NextProduce]_vars

\* C3: when transport-produce records a producer of a kind under which the
\* peer already has a producer recorded, the previous producer is closed by
\* the time the new one is recorded.
C3_PreviousProducerClosed ==
    [][\A c \in Conns :
          LET t == <<c, "transport-produce">>
              key == <<tasks[t].room, tasks[t].user>>
              old == producerInfo[key].producers[tasks[t].kind]
          IN  (/\ tasks[t].pc = "prod_produce"
               /\ producerInfo[key].present
               /\ old # 0
               /\ producerInfo'[key].producers[tasks[t].kind] = Len(producers) + 1)
                  => producers'[old].closed]_vars

\* C5: a consume request of a joined peer for a producer the router cannot
\* consume is answered with an acknowledgement carrying an error, and no consumer is
\* created or recorded.
C5_UnknownProducerRejected ==
    [][\A c \in Conns :
          LET t == <<c, "consume">>
          IN  (/\ tasks[t].pc = "cons_router"
               /\ \E a \in JoinAcks : a.err = "" /\ a.conn = c
               /\ tasks'[t].pc # "cons_router"
               /\ ~canConsume(tasks[t].room, tasks[t].arg))
                  => /\ \E a \in acks' \ acks :
                          /\ a.conn = c /\ a.rid = tasks[t].rid
                          /\ a.msg = "consume" /\ a.err # ""
                     /\ consumers' = consumers
                     /\ consumerInfo' = consumerInfo]_vars

\* ------------------------------------------------------------ teardown

\* Audio producers and hangups of connection 1; connection 2 consumes (up to
\* MaxConsume requests) and ends the meeting (up to MaxEnd requests).  The
\* client sends hangup from a call it has joined.
MaxAudio == 1
MaxHangup == 2

InitTeardown ==
    Scenario([SetupQuota EXCEPT !["transport-produce"] = MaxAudio, !["hangup"] = MaxHangup],
             [SetupQuota EXCEPT !["consume"] = MaxConsume, !["end-meeting"] = MaxEnd])

NextTeardown ==
    \/ \E c \in Conns, r \in OneRoom : StartJoin(c, UserOf(c), r, c = 1)
    \/ \E c \in Conns : StartCreateTransport(c)
    \/ \E c \in Conns : StartProduce(c, "audio", sock[c].username)
    \/ \E c \in Conns, p \in 1..(Len(producers) + 1) : StartConsume(c, p)
    \/ \E c \in Conns : Joined(c) /\ Hangup(c)
    \/ \E c \in Conns : StartEndMeeting(c)
    \/ \E t \in TaskIds :
          JoinSteps(t) \/ CtSteps(t) \/ ProdProduced(t) \/ ConsumeSteps(t) \/ EndSteps(t)
    \/ \E cid \in DOMAIN consumers : ProducerClosed(cid)

SpecTeardown == InitTeardown /\ [][NextTeardown]_vars

Torn(key) == ~producerInfo[key].present /\ ~consumerInfo[key].present

\* C4: teardown is idempotent.  Every hangup leaves the peer without a
\* record, in a state that a further teardown of the peer would not change
\* (no record touched, no close() called again); a hangup of a peer already
\* without a record (after its own hangup or after end-meeting) changes
\* nothing; and no handle has had close() called on it twice.
C4_TeardownIdempotent ==
    [][\A c \in Conns :
          LET key == <<sock[c].roomId, sock[c].username>>
              after == [pi |-> producerInfo', ci |-> consumerInfo', tr |-> transports',
                        pr |-> producers', co |-> consumers']
          IN  (Joined(c) /\ quota'[c]["hangup"] < quota[c]["hangup"])
                  => /\ ~after.pi[key].present /\ ~after.ci[key].present
                     /\ cleanupPeer(after, key) = after
                     /\ Torn(key) => UNCHANGED mediaVars
                     /\ \A t \in DOMAIN after.tr : after.tr[t].ncl <= 1
                     /\ \A p \in DOMAIN after.pr : after.pr[p].ncl <= 1
                     /\ \A x \in DOMAIN after.co : after.co[x].ncl <= 1]_vars

\* A second hangup has come from a peer whose first hangup closed its
\* producer and transports.
C4_Witness ==
    \E c \in Conns :
        /\ Joined(c)
        /\ quota[c]["hangup"] <= MaxHangup - 2
        /\ Torn(<<sock[c].roomId, sock[c].username>>)
        /\ \E p \in DOMAIN producers :
              /\ producers[p].tag = sock[c].username
              /\ producers[p].closed /\ producers[p].ncl = 1
              /\ transports[producers[p].tr].closed /\ transports[producers[p].tr].ncl = 1

\* -------------------------------------------------------------- roster

\* Three connections join once each, claiming creation or not; connection 1
\* also asks for its transports and produces audio (up to MaxAudio times).
InitRoster ==
    /\ Fresh
    /\ quota = [c \in Conns |->
                  IF c = 1 THEN [SetupQuota EXCEPT !["transport-produce"] = MaxAudio]
                  ELSE [NoQuota EXCEPT !["joinRoom"] = 1]]
    /\ env = [overlap |-> FALSE]

NextRoster ==
    \/ \E c \in Conns, r \in OneRoom, cr \in BOOLEAN : StartJoin(c, UserOf(c), r, cr)
    \/ \E c \in Conns : StartCreateTransport(c)
    \/ \E c \in Conns : StartProduce(c, "audio", sock[c].username)
    \/ \E t \in TaskIds : JoinSteps(t) \/ CtSteps(t) \/ ProdProduced(t)

SpecRoster == InitRoster /\ [][NextRoster]_vars

\* The open producers recorded for the peers other than u that have joined
\* room r (their join was acknowledged without error) and still hold a
\* record, each with its owner's username.
ActiveOthers(r, u) ==
    {<<producerInfo[<<r, v>>].producers[k], v>> :
        <<v, k>> \in {x \in (Users \ {u}) \X Kinds :
                        /\ producerInfo[<<r, x[1]>>].present
                        /\ \E a \in JoinAcks : a.err = "" /\ a.room = r /\ a.user = x[1]
                        /\ producerInfo[<<r, x[1]>>].producers[x[2]] # 0
                        /\ ~producers[producerInfo[<<r, x[1]>>].producers[x[2]]].closed}}

\* C10: the list a non-creator join builds is exactly the active producers of
\* the other joined peers, and its acknowledgement carries that list.
C10_ListsActiveProducers ==
    [][\A c \in Conns :
          LET t == <<c, "joinRoom">>
          IN  /\ (tasks[t].pc = "join_get" /\ tasks'[t].pc = "join_set")
                    => tasks'[t].resp = ActiveOthers(tasks[t].room, tasks[t].user)
              /\ (tasks[t].pc = "join_set" /\ ~tasks[t].creator /\ tasks'[t].pc = "idle")
                    => \E a \in acks' \ acks :
                          a.conn = c /\ a.err = "" /\ a.prods = tasks[t].resp]_vars

\* ------------------------------------------------------- notifications

\* Connection 1 joins once, asks for its transports and produces audio;
\* connection 2 joins up to MaxJoin times, in either room, claiming creation
\* or not (the client shows the join form again after a rejected join).
InitNotify ==
    Scenario([SetupQuota EXCEPT !["transport-produce"] = MaxAudio],
             [NoQuota EXCEPT !["joinRoom"] = MaxJoin])

NextNotify ==
    \/ \E c \in Conns, r \in Rooms, cr \in BOOLEAN : StartJoin(c, UserOf(c), r, cr)
    \/ \E c \in Conns : StartCreateTransport(c)
    \/ \E c \in Conns : StartProduce(c, "audio", sock[c].username)
    \/ \E t \in TaskIds : JoinSteps(t) \/ CtSteps(t) \/ ProdProduced(t)

SpecNotify == InitNotify /\ [][NextNotify]_vars

\* Connection d is a peer of room r: its join to r, the room it is in now,
\* was acknowledged without error.
JoinedTo(d, r) ==
    /\ sock[d].connected
    /\ sock[d].roomId = r
    /\ \E a \in JoinAcks : a.conn = d /\ a.room = r /\ a.err = ""

\* C11: a successful transport-produce of a joined peer sends new-producer, with the
\* producer's id and the producing peer's username, to every other peer of
\* the room and to no peer of another room.
C11_NewProducerToRoomOnly ==
    [][\A c \in Conns :
          LET t == <<c, "transport-produce">>
              r == tasks[t].room
          IN  \A a \in acks' \ acks :
                (a.msg = "transport-produce" /\ a.conn = c /\ a.err = "" /\ JoinedTo(c, r))
                  => LET new == {n \in notes' : n.type = "new-producer" /\ n.id = a.id}
                     IN  /\ \A n \in new : n.user = tasks[t].user
                         /\ \A d \in Conns \ {c} : JoinedTo(d, r) => \E n \in new : n.to = d
                         /\ \A n \in new : \A q \in Rooms \ {r} : ~JoinedTo(n.to, q)]_vars

\* ------------------------------------------------- consume and resume

\* Connection 1 produces audio and hangs up; connection 2 consumes and sends
\* consumer-resume (up to MaxResume times), naming a consumer id up to one
\* past the last.
MaxResume == 1

InitConsume ==
    Scenario([SetupQuota EXCEPT !["transport-produce"] = MaxAudio, !["hangup"] = MaxHangup],
             [SetupQuota EXCEPT !["consume"] = MaxConsume, !["consumer-resume"] = MaxResume])

NextConsume ==
    \/ \E c \in Conns, r \in OneRoom : StartJoin(c, UserOf(c), r, c = 1)
    \/ \E c \in Conns : StartCreateTransport(c)
    \/ \E c \in Conns : StartProduce(c, "audio", sock[c].username)
    \/ \E c \in Conns, p \in 1..(Len(producers) + 1) : StartConsume(c, p)
    \/ \E c \in Conns, cid \in 1..(Len(consumers) + 1) : StartResume(c, cid)
    \/ \E c \in Conns : Joined(c) /\ Hangup(c)
    \/ \E t \in TaskIds :
          \/ JoinSteps(t) \/ CtSteps(t) \/ ProdProduced(t) \/ ConsumeSteps(t)
          \/ \E ok \in BOOLEAN : ResumeDone(t, ok)
    \/ \E cid \in DOMAIN consumers : ProducerClosed(cid)

SpecConsume == InitConsume /\ [][NextConsume]_vars

C13_UnknownResumeNoOp ==
    [][\A c \in Conns :
          LET t == <<c, "consumer-resume">>
              key == <<sock[c].roomId, sock[c].username>>
          IN  quota'[c]["consumer-resume"] < quota[c]["consumer-resume"]
                => /\ UNCHANGED <<redis, redisQ, sock, mediaVars, hlsVars, acks, notes,
                                  escaped>>
                   /\ tasks'[t] # tasks[t]
                        => /\ Joined(c)
                           /\ consumerInfo[key].present
                           /\ tasks'[t].cons \in consumerInfo[key].consumers
                   /\ \A u \in TaskIds \ {t} : tasks'[u] = tasks[u]]_vars

\* A consumer-resume was sent and came to nothing while the sender holds an
\* open, still paused consumer: it named another id.
C13_Witness ==
    \E c \in Conns :
        /\ quota[c]["consumer-resume"] < MaxResume
        /\ tasks[<<c, "consumer-resume">>].pc = "idle"
        /\ escaped = {}
        /\ \E cid \in DOMAIN consumers : consumers[cid].conn = c
        /\ \A cid \in DOMAIN consumers :
              consumers[cid].conn = c => consumers[cid].paused /\ ~consumers[cid].closed

\* ---------------------------------------- playback start that fails

\* Connection 1 joins, asks for its transports and produces video;
\* connection 2 joins and ends the meeting; the spawn may fail.
InitStart ==
    Scenario([SetupQuota EXCEPT !["transport-produce"] = MaxVideo],
             [NoQuota EXCEPT !["joinRoom"] = 1, !["end-meeting"] = MaxEnd])

NextStart ==
    \/ \E c \in Conns, r \in OneRoom : StartJoin(c, UserOf(c), r, c = 1)
    \/ \E c \in Conns : StartCreateTransport(c)
    \/ \E c \in Conns : StartProduce(c, "video", sock[c].username)
    \/ \E c \in Conns : StartEndMeeting(c)
    \/ \E t \in TaskIds : JoinSteps(t) \/ CtSteps(t) \/ ProduceSteps(t) \/ EndSteps(t)
    \/ \E f \in DOMAIN ffmpegs : FfmpegClose(f) \/ FfmpegError(f)

SpecStart == InitStart /\ [][NextStart]_vars

NoProducerTransport(c) ==
    \/ ~Joined(c)
    \/ ~producerInfo[<<sock[c].roomId, sock[c].username>>].present
    \/ producerInfo[<<sock[c].roomId, sock[c].username>>].transport = 0

\* C15: a transport-produce from a caller without a producer transport is
\* acknowledged with an error, creates no producer, emits no notification and
\* starts no playback.
C15_NoTransportRejected ==
    [][\A c \in Conns :
          (quota'[c]["transport-produce"] < quota[c]["transport-produce"]
             /\ NoProducerTransport(c))
            => /\ \E a \in acks' \ acks :
                    /\ a.conn = c /\ a.rid = sock'[c].seq
                    /\ a.msg = "transport-produce" /\ a.err # ""
               /\ tasks' = tasks
               /\ UNCHANGED <<mediaVars, hlsVars, notes>>]_vars

\* ---------------------------------------------------- end of a meeting

\* C16: when end-meeting completes for an existing room, no peer whose join
\* to the room was acknowledged without error keeps a record, every transport, producer and consumer of
\* the room is closed, the durable record is gone and meeting-ended has been
\* sent to the room.
C16_EndMeetingClearsRoom ==
    [][\A c \in Conns :
          LET t == <<c, "end-meeting">>
              r == tasks[t].room
          IN  (tasks[t].pc = "end_router" /\ tasks'[t].pc = "idle")
                => /\ \A a \in JoinAcks :
                         (a.room = r /\ a.err = "")
                            => /\ ~producerInfo'[<<r, a.user>>].present
                               /\ ~consumerInfo'[<<r, a.user>>].present
                   /\ \A x \in DOMAIN transports' :
                         transports'[x].room = r => transports'[x].closed
                   /\ \A p \in DOMAIN producers' :
                         transports'[producers'[p].tr].room = r => producers'[p].closed
                   /\ \A x \in DOMAIN consumers' :
                         transports'[consumers'[x].tr].room = r => consumers'[x].closed
                   /\ ~redis'[r].exists
                   /\ MeetingEnded(r) \subseteq notes']_vars

\* ------------------------------------------------------------ disconnect

\* C17: when the disconnect handler of a joined peer writes (every departing
\* peer having joined successfully and the room having one creator), the durable
\* record is deleted exactly when the durable peer list without the peer is
\* empty; otherwise the record holds that list with exactly the peer removed.
C17_DisconnectUpdatesList ==
    [][\A c \in Conns :
          LET t == <<c, "disconnect">>
              r == tasks[t].room
              rest == Without(redis[r].peers, tasks[t].user)
          IN  (/\ tasks[t].pc = "disc_get"
               /\ tasks'[t].pc \in {"disc_set", "disc_del"}
               /\ \A d \in Conns : \A k \in DOMAIN tasks :
                      (k[1] = d /\ tasks[k].pc # "idle" /\ k[2] = "disconnect")
                         => \E a \in JoinAcks : a.conn = d /\ a.err = ""
               /\ Cardinality({d \in Conns :
                      \/ \E a \in JoinAcks : a.conn = d /\ a.creator
                      \/ /\ tasks[<<d, "joinRoom">>].pc # "idle"
                         /\ tasks[<<d, "joinRoom">>].creator}) <= 1)
                => IF rest = <<>>
                   THEN ~redis'[r].exists
                   ELSE redis'[r] = [exists |-> TRUE, peers |-> rest]]_vars

\* ---------------------------------------------------------------- hangup

\* Connection 1 creates the room and stays; connection 2 produces audio,
\* consumes and hangs up (up to MaxLeave times).
MaxLeave == 1

InitLeave ==
    Scenario([NoQuota EXCEPT !["joinRoom"] = 1],
             [SetupQuota EXCEPT !["transport-produce"] = MaxAudio,
                                !["consume"] = MaxConsume, !["hangup"] = MaxLeave])

NextLeave ==
    \/ \E c \in Conns, r \in OneRoom : StartJoin(c, UserOf(c), r, c = 1)
    \/ \E c \in Conns : StartCreateTransport(c)
    \/ \E c \in Conns : StartProduce(c, "audio", sock[c].username)
    \/ \E c \in Conns, p \in 1..(Len(producers) + 1) : StartConsume(c, p)
    \/ \E c \in Conns : Joined(c) /\ Hangup(c)
    \/ \E t \in TaskIds :
          JoinSteps(t) \/ CtSteps(t) \/ ProdProduced(t) \/ ConsumeSteps(t)

SpecLeave == InitLeave /\ [][NextLeave]_vars

\* The producers of a peer: those of its record and those whose '@close'
\* listener names it.
ProducersOf(key) ==
    ({producerInfo[key].producers[k] : k \in Kinds} \ {0})
        \cup {p \in DOMAIN producers : producers[p].lkey = key}

\* C18: the hangup of a joined peer removes its producer and consumer
\* records, leaves all of its producers, its consumers and both of its
\* transports closed, and sends peer-left with its username to every other
\* peer of the room.
C18_HangupTearsDown ==
    [][\A c \in Conns :
          LET r == sock[c].roomId
              key == <<r, sock[c].username>>
          IN  (JoinedTo(c, r) /\ quota'[c]["hangup"] < quota[c]["hangup"])
                  => /\ ~producerInfo'[key].present
                     /\ ~consumerInfo'[key].present
                     /\ \A p \in ProducersOf(key) : producers'[p].closed
                     /\ \A x \in consumerInfo[key].consumers : consumers'[x].closed
                     /\ producerInfo[key].transport # 0
                           => transports'[producerInfo[key].transport].closed
                     /\ consumerInfo[key].transport # 0
                           => transports'[consumerInfo[key].transport].closed
                     /\ \A d \in Conns \ {c} :
                           JoinedTo(d, r)
                             => [to |-> d, type |-> "peer-left",
                                 user |-> sock[c].username, id |-> 0] \in notes']_vars

\* A peer that had a producer, a consumer and both transports has hung up
\* while another peer was in the room, and that peer holds the peer-left.
C18_Witness ==
    \E c \in Conns, d \in Conns :
        /\ c # d
        /\ JoinedTo(c, sock[c].roomId) /\ JoinedTo(d, sock[c].roomId)
        /\ quota[c]["hangup"] < MaxLeave
        /\ Torn(<<sock[c].roomId, sock[c].username>>)
        /\ \E p \in DOMAIN producers :
              /\ producers[p].tag = sock[c].username /\ producers[p].closed
        /\ \E x \in DOMAIN consumers :
              /\ consumers[x].conn = c /\ consumers[x].closed
              /\ consumers[x].tr # producers[CHOOSE p \in DOMAIN producers :
                                                 producers[p].tag = sock[c].username].tr
        /\ [to |-> d, type |-> "peer-left", user |-> sock[c].username, id |-> 0] \in notes

\* ------------------------------------------------------ acknowledgements

\* The requests that carry an acknowledgement callback.
Requests == {"joinRoom", "createWebRTCTransport", "transport-produce", "consume"}

AcksOf(as, c, k, rid) == {a \in as : a.conn = c /\ a.msg = k /\ a.rid = rid}

\* C19: when the handler of a join, create-transport, produce or consume
\* request returns, at arrival or after its last await, the request has been
\* answered with exactly one acknowledgement, whether or not the connection
\* has joined and whatever the outcome of the handler's preconditions.
C19_OneAckPerRequest ==
    [][\A c \in Conns : \A k \in Requests :
          LET t == <<c, k>>
          IN  /\ (tasks[t].pc # "idle" /\ tasks'[t].pc = "idle")
                    => Cardinality(AcksOf(acks', c, k, tasks[t].rid)) = 1
              /\ (quota'[c][k] < quota[c][k] /\ tasks'[t].pc = "idle")
                    => Cardinality(AcksOf(acks', c, k, sock'[c].seq)) = 1]_vars

\* --------------------------------------------------- escaping exceptions

\* Each connection joins, asks for its transports and sends transport-connect
\* and transport-recv-connect (up to MaxConnect times each), in any order.
MaxConnect == 1

ConnectQuota ==
    [SetupQuota EXCEPT !["transport-connect"] = MaxConnect,
                       !["transport-recv-connect"] = MaxConnect]

InitConnect == Scenario(ConnectQuota, ConnectQuota)

NextConnect ==
    \/ \E c \in Conns, r \in OneRoom : StartJoin(c, UserOf(c), r, c = 1)
    \/ \E c \in Conns : StartCreateTransport(c)
    \/ \E c \in Conns : TransportConnect(c, "transport-connect")
    \/ \E c \in Conns : TransportConnect(c, "transport-recv-connect")
    \/ \E t \in TaskIds : JoinSteps(t) \/ CtSteps(t)

SpecConnect == InitConnect /\ [][NextConnect]_vars

\* C20: no handler lets an exception escape when a precondition of its
\* request does not hold, transport-connect and transport-recv-connect
\* received before the peer's transports exist included: a handler of a
\* successfully joined peer never ends in an unhandled rejection.
C20_NoEscapedException ==
    \A e \in escaped :
        ~\E a \in JoinAcks : a.conn = e.conn /\ a.err = ""

\* ---------------------------------------------- order within a connection

\* Both connections join and ask for their transports once, and connection 1
\* produces audio (up to MaxAudio times); a connection may send its next
\* message while a handler of an earlier one is suspended.
InitOrder ==
    /\ Fresh
    /\ quota = [c \in Conns |->
                   CASE c = 1 -> [SetupQuota EXCEPT !["transport-produce"] = MaxAudio]
                     [] c = 2 -> SetupQuota
                     [] OTHER -> NoQuota]
    /\ env = [overlap |-> TRUE]

NextOrder ==
    \/ \E c \in Conns, r \in OneRoom : StartJoin(c, UserOf(c), r, c = 1)
    \/ \E c \in Conns : StartCreateTransport(c)
    \/ \E c \in Conns : StartProduce(c, "audio", sock[c].username)
    \/ \E t \in TaskIds : JoinSteps(t) \/ CtSteps(t) \/ ProdProduced(t)

SpecOrder == InitOrder /\ [][NextOrder]_vars

\* The state that handlers share: the durable store, the session tables, the
\* media engine, and what has been sent to the clients.
Shared == <<redis, mediaVars, hlsVars, acks, notes>>

\* Handler k of connection c is suspended, and its message arrived before
\* the one numbered rid.
EarlierInFlight(c, k, rid) ==
    /\ tasks[<<c, k>>].pc # "idle"
    /\ tasks[<<c, k>>].rid < rid

\* C21: while the handler of an earlier message of a connection has not
\* completed, no step of the handler of a later message of that connection
\* (its arrival included) changes the shared state.
C21_ArrivalOrder ==
    [][\A c \in Conns : \A k1, k2 \in Handlers :
          /\ (/\ k1 # k2
              /\ tasks[<<c, k2>>].pc # "idle"
              /\ tasks'[<<c, k2>>] # tasks[<<c, k2>>]
              /\ EarlierInFlight(c, k1, tasks[<<c, k2>>].rid))
                => UNCHANGED Shared
          /\ (/\ quota'[c][k2] < quota[c][k2]
              /\ EarlierInFlight(c, k1, sock'[c].seq))
                => UNCHANGED Shared]_vars

\* ------------------------------------------------------------ injection

\* Connection 1 creates the room and may end the meeting (up to MaxEnd
\* times); connection 2 joins; both may disconnect (up to MaxDisconnect
\* times); a file is injected into the room (up to MaxInject calls).
InitInject ==
    Scenario([NoQuota EXCEPT !["joinRoom"] = 1, !["end-meeting"] = MaxEnd,
                             !["disconnect"] = MaxDisconnect],
             [NoQuota EXCEPT !["joinRoom"] = 1, !["disconnect"] = MaxDisconnect])

NextInject ==
    \/ \E c \in Conns, r \in OneRoom : StartJoin(c, UserOf(c), r, c = 1)
    \/ \E r \in OneRoom : StartInject(r)
    \/ \E r \in OneRoom : InjectSteps(r)
    \/ \E f \in DOMAIN injectFfmpegs : InjectFfmpegClose(f) \/ InjectFfmpegError(f)
    \/ \E c \in Conns : StartEndMeeting(c)
    \/ \E c \in Conns : Disconnect(c)
    \/ \E t \in TaskIds : JoinSteps(t) \/ EndSteps(t) \/ DiscSteps(t)

SpecInject == InitInject /\ [][NextInject]_vars

\* The injection session sess has been stopped: its subprocess is not
\* running and its producers and relay transports are closed.
InjectReleased(sess) ==
    /\ injectFfmpegs'[sess.ffmpeg].st # "running"
    /\ producers'[sess.audioProducer].closed
    /\ producers'[sess.videoProducer].closed
    /\ transports'[sess.audioTransport].closed
    /\ transports'[sess.videoTransport].closed

\* C22: when the handler of a joined peer that deleted a room's durable
\* record (end-meeting, or the disconnect of the last peer) completes, an
\* injection session the room had is stopped and its record removed.
C22_DeletionStopsInjection ==
    [][\A c \in Conns :
          LET te == <<c, "end-meeting">>
              td == <<c, "disconnect">>
              re == sock[c].roomId
              rd == tasks[td].room
              joined == \E a \in JoinAcks : a.conn = c /\ a.err = ""
          IN  /\ (/\ tasks[te].pc = "end_router" /\ tasks'[te].pc = "idle"
                  /\ joined /\ injectSessions[re].present)
                    => /\ ~injectSessions'[re].present
                       /\ InjectReleased(injectSessions[re])
              /\ (/\ tasks[td].pc = "disc_router" /\ tasks'[td].pc = "idle"
                  /\ joined /\ injectSessions[rd].present)
                    => /\ ~injectSessions'[rd].present
                       /\ InjectReleased(injectSessions[rd])]_vars

\* ------------------------------------------ exit of a playback subprocess

\* The playback start that spawned subprocess f is still suspended.
StartInFlight(f) ==
    \E t \in TaskIds : tasks[t].pc \in HlsPcs /\ tasks[t].ff = f

\* C23: once the subprocess of a playback start has exited or failed to
\* spawn and the start itself has returned, the consumer and relay transport
\* that start created are closed and the room has no session record that
\* refers to them, whether the subprocess ended before or after the record
\* was registered.
C23_ExitReleasesSession ==
    \A f \in DOMAIN ffmpegs :
        (ffmpegs[f].st \in {"exited", "failed"} /\ ~StartInFlight(f))
            => /\ consumers[ffmpegs[f].cons].closed
               /\ transports[ffmpegs[f].tr].closed
               /\ ~(/\ hlsSessions[ffmpegs[f].room].present
                    /\ hlsSessions[ffmpegs[f].room].ffmpeg = f)

\* ------------------------------------------------ order of a playback start

\* Consumer cid is the relay consumer of a playback start.
Relay(cs, cid) == cs[cid].lkey = NoKey /\ cs[cid].conn = 0

\* The step is the one in which the `await consumer.resume()` of the start
\* that created relay consumer cid returns.
ResumeReturns(cid) ==
    \E t \in TaskIds :
        /\ tasks[t].pc = "hls_resume" /\ tasks[t].cons = cid
        /\ tasks'[t].pc = "idle"
        /\ \E f \in DOMAIN ffmpegs : ffmpegs[f].cons = cid

\* C24: a relay consumer is created paused; it leaves the paused state only
\* when the resume of its start returns, after the subprocess was spawned;
\* and a session record naming it is registered only in that step, with the
\* consumer resumed (or closed in the meantime).
C24_ResumeAfterSpawn ==
    [][/\ \A cid \in DOMAIN consumers' :
              Relay(consumers', cid)
                => /\ cid \notin DOMAIN consumers => consumers'[cid].paused
                   /\ (/\ cid \in DOMAIN consumers
                       /\ consumers[cid].paused /\ ~consumers'[cid].paused)
                         => ResumeReturns(cid)
       /\ \A r \in Rooms :
              (hlsSessions'[r].present /\ hlsSessions'[r] # hlsSessions[r])
                => /\ ResumeReturns(hlsSessions'[r].consumer)
                   /\ \/ ~consumers'[hlsSessions'[r].consumer].paused
                      \/ consumers'[hlsSessions'[r].consumer].closed]_vars

\* A session is registered whose relay consumer has been resumed and whose
\* subprocess is running.
C24_Witness ==
    \E r \in Rooms :
        /\ hlsSessions[r].present
        /\ ~consumers[hlsSessions[r].consumer].paused
        /\ ~consumers[hlsSessions[r].consumer].closed
        /\ ffmpegs[hlsSessions[r].ffmpeg].st = "running"
        /\ ffmpegs[hlsSessions[r].ffmpeg].cons = hlsSessions[r].consumer

\* ----------------------------------------- replacement of a stale session

\* Both connections join, ask for their transports and produce video (up to
\* MaxVideo times each).
InitReplace ==
    Scenario([SetupQuota EXCEPT !["transport-produce"] = MaxVideo],
             [SetupQuota EXCEPT !["transport-produce"] = MaxVideo])

NextReplace ==
    \/ \E c \in Conns, r \in OneRoom : StartJoin(c, UserOf(c), r, c = 1)
    \/ \E c \in Conns : StartCreateTransport(c)
    \/ \E c \in Conns : StartProduce(c, "video", sock[c].username)
    \/ \E t \in TaskIds : JoinSteps(t) \/ CtSteps(t) \/ ProduceSteps(t)

SpecReplace == InitReplace /\ [][NextReplace]_vars

\* C25: the step that enters a playback start for a room with a session
\* record leaves the old subprocess killed, the old consumer and relay
\* transport closed and the record removed, and allocates no transport; and
\* a record registered later names no handle of another start of the room.
C25_StaleSessionReplaced ==
    [][/\ \A t \in TaskIds :
              LET old == hlsSessions[sock[tasks[t].conn].roomId]
              IN  (/\ tasks[t].pc = "prod_router" /\ tasks'[t].pc = "hls_transport"
                   /\ old.present)
                     => /\ ffmpegs'[old.ffmpeg].st # "running"
                        /\ consumers'[old.consumer].closed
                        /\ transports'[old.transport].closed
                        /\ ~hlsSessions'[sock[tasks[t].conn].roomId].present
                        /\ Len(transports') = Len(transports)
       /\ \A r \in Rooms :
              (hlsSessions'[r].present /\ hlsSessions'[r] # hlsSessions[r])
                => \A f \in DOMAIN ffmpegs' :
                      f # hlsSessions'[r].ffmpeg
                        => /\ ffmpegs'[f].cons # hlsSessions'[r].consumer
                           /\ ffmpegs'[f].tr # hlsSessions'[r].transport]_vars

\* A start has replaced a session: the old subprocess is killed and its
\* handles closed, and the room's record names the new start's handles.
C25_Witness ==
    \E r \in Rooms, f \in DOMAIN ffmpegs :
        /\ hlsSessions[r].present
        /\ ffmpegs[f].room = r /\ f # hlsSessions[r].ffmpeg
        /\ ffmpegs[f].st = "killed"
        /\ consumers[ffmpegs[f].cons].closed
        /\ transports[ffmpegs[f].tr].closed
        /\ ~transports[hlsSessions[r].transport].closed

\* ------------------------------------------------------- stopHlsRecording

\* Connection 1 joins, asks for its transports, produces video (up to
\* MaxVideo times) and ends the meeting (up to MaxEnd times); connection 2
\* joins; /hls/stop is requested for the room at any time; the subprocess
\* may exit or fail.
InitStop ==
    Scenario([SetupQuota EXCEPT !["transport-produce"] = MaxVideo, !["end-meeting"] = MaxEnd],
             [NoQuota EXCEPT !["joinRoom"] = 1])

NextStop ==
    \/ \E c \in Conns, r \in OneRoom : StartJoin(c, UserOf(c), r, c = 1)
    \/ \E c \in Conns : StartCreateTransport(c)
    \/ \E c \in Conns : StartProduce(c, "video", sock[c].username)
    \/ \E c \in Conns : StartEndMeeting(c)
    \/ \E r \in OneRoom : HlsStop(r)
    \/ \E t \in TaskIds : JoinSteps(t) \/ CtSteps(t) \/ ProduceSteps(t) \/ EndSteps(t)
    \/ \E f \in DOMAIN ffmpegs : FfmpegClose(f) \/ FfmpegError(f)

SpecStop == InitStop /\ [][NextStop]_vars

\* C26: a step in which stopHlsRecording removes a room's record leaves the
\* room without a record, whatever the state of the release; and the stop at
\* the end of end-meeting leaves the room without a record and, when the room
\* had none, changes nothing of the playback state.
C26_StopForgetsAtOnce ==
    [][/\ \A e \in forgotten' \ forgotten :
              e.by = "stop" => ~hlsSessions'[e.room].present
       /\ \A c \in Conns :
              LET t == <<c, "end-meeting">>
                  r == sock[c].roomId
              IN  (tasks[t].pc = "end_router" /\ tasks'[t].pc = "idle")
                    => /\ ~hlsSessions'[r].present
                       /\ ~hlsSessions[r].present
                            => /\ UNCHANGED <<hlsSessions, ffmpegs, forgotten>>
                               /\ transports' = RouterClose(M, r).tr
                               /\ consumers' = RouterClose(M, r).co]_vars

\* /hls/stop has returned with the record removed while the relay transport
\* was still open, and an end-meeting has since run its stop on the room.
C26_Witness ==
    \E e \in forgotten :
        /\ e.by = "stop" /\ e.consumer /\ ~e.transport
        /\ ~hlsSessions[e.room].present
        /\ \E c \in Conns :
              /\ sock[c].roomId = e.room
              /\ quota[c]["end-meeting"] < MaxEnd
              /\ tasks[<<c, "end-meeting">>].pc = "idle"
              /\ ~redis[e.room].exists

\* C27: whenever a session record is removed from the registry (by a stop,
\* a subprocess exit, a spawn failure or the replacement of a stale session),
\* the record's consumer and relay transport have already been closed.
C27_ReleasedBeforeForgotten ==
    \A e \in forgotten : e.consumer /\ e.transport

\* C28: once the subprocess of an injection session has exited or failed
\* to spawn, the two producers and two relay transports that were created
\* for it are closed and no record of the room names it.
C28_InjectExitReleases ==
    \A f \in DOMAIN injectFfmpegs :
        injectFfmpegs[f].st \in {"exited", "failed"}
            => /\ producers[injectFfmpegs[f].audioProducer].closed
               /\ producers[injectFfmpegs[f].videoProducer].closed
               /\ transports[injectFfmpegs[f].audioTransport].closed
               /\ transports[injectFfmpegs[f].videoTransport].closed
               /\ ~(/\ injectSessions[injectFfmpegs[f].room].present
                    /\ injectSessions[injectFfmpegs[f].room].ffmpeg = f)

\* ------------------------------------------- the peer list is not atomic

\* C29: the read-modify-write of the peer list is not atomic.  The list a
\* join or a disconnect writes back is computed from the copy it read before
\* its suspension, whatever the store holds at the time of the write; so a
\* concurrent write to the same room is lost.
C29_WritesBackStaleCopy ==
    [][\A t \in TaskIds :
          LET r == tasks[t].room
              rest == Without(tasks[t].peers, tasks[t].user)
          IN  /\ (tasks[t].pc = "join_get" /\ tasks'[t].pc = "join_set")
                    => redis'[r] = [exists |-> TRUE,
                                    peers |-> Append(tasks[t].peers, tasks[t].user)]
              /\ (tasks[t].pc = "disc_get" /\ tasks'[t].pc = "disc_set")
                    => redis'[r] = [exists |-> TRUE, peers |-> rest]
              /\ (tasks[t].pc = "disc_get" /\ tasks'[t].pc = "disc_del")
                    => rest = <<>> /\ ~redis'[r].exists]_vars

\* All handlers have returned, the room was created once, and a connected
\* peer whose join was acknowledged as successful is not in the durable
\* peer list of its room.
C29_Witness ==
    /\ \A t \in TaskIds : tasks[t].pc = "idle"
    /\ Cardinality({a \in JoinAcks : a.creator /\ a.err = ""}) = 1
    /\ \E c \in Conns :
          /\ JoinedTo(c, sock[c].roomId)
          /\ \A a \in JoinAcks : a.conn = c => a.err = "" /\ ~a.creator
          /\ \/ ~redis[sock[c].roomId].exists
             \/ \A i \in DOMAIN redis[sock[c].roomId].peers :
                   redis[sock[c].roomId].peers[i] # sock[c].username

\* ------------------------------------------ the playback trigger in produce

\* C30: the playback trigger in transport-produce is fire-and-forget.  While
\* the playback start of a video produce has not returned, the produce has
\* already been acknowledged with the producer's id and the new-producer
\* broadcast has already been sent to the other peers of the room.
C30_ProduceDoesNotWait ==
    \A c \in Conns :
        LET t == <<c, "transport-produce">>
        IN  tasks[t].pc \in HlsPcs \cup {"prod_router"}
              => /\ \E a \in acks :
                       /\ a.conn = c /\ a.rid = tasks[t].rid
                       /\ a.msg = "transport-produce"
                       /\ a.err = "" /\ a.id = tasks[t].prod
                 /\ NewProducerNote(c, tasks[t].prod) \subseteq notes

\* ------------------------------------------------ consumers of a producer

\* alice produces and may hang up; bob consumes, resumes and may end the
\* meeting.
InitClosed ==
    Scenario([SetupQuota EXCEPT !["transport-produce"] = MaxAudio, !["hangup"] = MaxLeave],
             [SetupQuota EXCEPT !["consume"] = MaxConsume, !["consumer-resume"] = MaxResume,
                                !["end-meeting"] = MaxEnd])

NextClosed ==
    \/ \E c \in Conns, r \in OneRoom : StartJoin(c, UserOf(c), r, c = 1)
    \/ \E c \in Conns : StartCreateTransport(c)
    \/ \E c \in Conns : StartProduce(c, "audio", sock[c].username)
    \/ \E c \in Conns, p \in 1..(Len(producers) + 1) : StartConsume(c, p)
    \/ \E c \in Conns, cid \in 1..(Len(consumers) + 1) : StartResume(c, cid)
    \/ \E c \in Conns : Joined(c) /\ Hangup(c)
    \/ \E c \in Conns : StartEndMeeting(c)
    \/ \E t \in TaskIds :
          \/ JoinSteps(t) \/ CtSteps(t) \/ ProdProduced(t) \/ ConsumeSteps(t) \/ EndSteps(t)
          \/ \E ok \in BOOLEAN : ResumeDone(t, ok)
    \/ \E cid \in DOMAIN consumers : ProducerClosed(cid)

SpecClosed == InitClosed /\ [][NextClosed]_vars

ConsumerClosedNote(cid) ==
    [to |-> consumers[cid].conn, type |-> "consumer-closed", user |-> "", id |-> cid]

\* Consumer cid is held by a successfully joined peer other than the owner of
\* its producer, is open, and closes in this step.
ConsumerGoes(cid) ==
    LET co == consumers[cid]
    IN  /\ co.lkey # NoKey
        /\ co.lkey # producers[co.prod].lkey
        /\ \E a \in JoinAcks : a.conn = co.conn /\ a.err = ""
        /\ cid \in consumerInfo[co.lkey].consumers
        /\ ~co.closed
        /\ consumers'[cid].closed

C32_FlagMeansRunningSession ==
    \A r \in Rooms :
        (r \in hlsActiveRooms /\ redis[r].exists)
            => /\ hlsSessions[r].present
               /\ ffmpegs[hlsSessions[r].ffmpeg].st = "running"

\* ------------------------------------------- late events of a subprocess

\* Two peers produce video at about the same time, so that two playback
\* starts of one room overlap; the subprocesses end when they like.
InitLate ==
    Scenario([SetupQuota EXCEPT !["transport-produce"] = MaxVideo],
             [SetupQuota EXCEPT !["transport-produce"] = MaxVideo])

NextLate ==
    \/ \E c \in Conns, r \in OneRoom : StartJoin(c, UserOf(c), r, c = 1)
    \/ \E c \in Conns : StartCreateTransport(c)
    \/ \E c \in Conns : StartProduce(c, "video", sock[c].username)
    \/ \E t \in TaskIds : JoinSteps(t) \/ CtSteps(t) \/ ProduceSteps(t)
    \/ \E f \in DOMAIN ffmpegs : FfmpegClose(f) \/ FfmpegError(f)

SpecLate == InitLate /\ [][NextLate]_vars

\* C33: the exit or error event of a subprocess leaves the session of
\* another subprocess alone.  In a step in which subprocess f exits or fails
\* while the room's record names another subprocess, the record stays and
\* its consumer and relay transport stay as they are.
C33_LateExitSparesNewSession ==
    [][\A f \in DOMAIN ffmpegs :
          LET r == ffmpegs[f].room
              sess == hlsSessions[r]
          IN  (/\ ffmpegs[f].st \notin {"exited", "failed"}
               /\ ffmpegs'[f].st \in {"exited", "failed"}
               /\ sess.present
               /\ sess.ffmpeg # f)
                => /\ hlsSessions'[r] = sess
                   /\ consumers'[sess.consumer] = consumers[sess.consumer]
                   /\ transports'[sess.transport] = transports[sess.transport]]_vars

\* ------------------------------------------------ the producer map entry

\* The peer a producer was created for: the room of its transport and the
\* username of the connection that produced it.
OwnerKey(p) == <<transports[producers[p].tr].room, producers[p].tag>>

\* C34: the entry a successfully joined peer holds for a kind refers to a
\* producer of that kind that is not closed, and no open producer of that
\* kind was created for the peer after it.
C34_EntryIsLatestOpenProducer ==
    \A key \in PeerKeys, k \in Kinds :
        LET e == producerInfo[key].producers[k]
        IN  (/\ producerInfo[key].present
             /\ e # 0
             /\ \E a \in JoinAcks : a.room = key[1] /\ a.user = key[2] /\ a.err = "")
              => /\ producers[e].kind = k
                 /\ ~producers[e].closed
                 /\ \A p \in DOMAIN producers :
                       (p > e /\ producers[p].kind = k /\ OwnerKey(p) = key)
                          => producers[p].closed

\* ------------------------------------------- a connection that was rejected

\* Every join of connection c has been answered, and answered with an error.
Rejected(c) ==
    /\ tasks[<<c, "joinRoom">>].pc = "idle"
    /\ \E a \in JoinAcks : a.conn = c
    /\ \A a \in JoinAcks : a.conn = c => a.err # ""

\* This step belongs to a hangup, an end-meeting or a disconnect of c.
Leaves(c) ==
    \/ quota'[c]["hangup"] < quota[c]["hangup"]
    \/ \E k \in {"end-meeting", "disconnect"} :
          \/ quota'[c][k] < quota[c][k]
          \/ tasks'[<<c, k>>] # tasks[<<c, k>>]

\* C35: a connection whose join was rejected is not a member of the room.
\* No step of its hangup, end-meeting or disconnect changes the record of
\* another peer, the durable record of a room or a playback session.
C35_RejectedConnectionIsNoMember ==
    [][\A c \in Conns :
          (Rejected(c) /\ Leaves(c))
            => /\ redis' = redis
               /\ hlsSessions' = hlsSessions
               /\ ffmpegs' = ffmpegs
               /\ \A key \in PeerKeys \ {<<sock[c].roomId, sock[c].username>>} :
                     /\ producerInfo'[key] = producerInfo[key]
                     /\ consumerInfo'[key] = consumerInfo[key]]_vars

\* ------------------------------------------ two connections of one identity

\* Connection 1 creates the room as alice and may hang up and disconnect;
\* connection 2 joins the room as alice too, asks for its transports and
\* produces audio; connection 3 joins as carol.
InitRejoin ==
    /\ Fresh
    /\ quota = [c \in Conns |->
                   CASE c = 1 -> [NoQuota EXCEPT !["joinRoom"] = 1, !["hangup"] = MaxLeave,
                                                 !["disconnect"] = MaxDisconnect]
                     [] c = 2 -> [SetupQuota EXCEPT !["transport-produce"] = MaxAudio]
                     [] OTHER -> [NoQuota EXCEPT !["joinRoom"] = 1]]
    /\ env = [overlap |-> FALSE]

NextRejoin ==
    \/ \E c \in Conns, r \in OneRoom :
          StartJoin(c, IF c = 3 THEN "carol" ELSE "alice", r, c = 1)
    \/ \E c \in Conns : StartCreateTransport(c)
    \/ \E c \in Conns : StartProduce(c, "audio", sock[c].username)
    \/ \E c \in Conns : Joined(c) /\ Hangup(c)
    \/ \E c \in Conns : Disconnect(c)
    \/ \E t \in TaskIds : JoinSteps(t) \/ CtSteps(t) \/ ProdProduced(t) \/ DiscSteps(t)

SpecRejoin == InitRejoin /\ [][NextRejoin]_vars

\* Connection d has joined, without error and not as the creator, under the
\* room and username under which c created the room, and is still connected.
Replaces(d, c) ==
    /\ d # c
    /\ sock[d].connected
    /\ sock[d].roomId = sock[c].roomId /\ sock[d].username = sock[c].username
    /\ \E a \in JoinAcks : a.conn = c /\ a.err = "" /\ a.creator
    /\ \E a \in JoinAcks :
          /\ a.conn = d /\ a.err = "" /\ ~a.creator
          /\ a.room = sock[c].roomId /\ a.user = sock[c].username

\* C36: once a second connection has joined under the room and username of
\* an earlier one, no step of the hangup or disconnect of the earlier
\* connection changes the peer's records or closes a transport or producer,
\* and none removes the username from the durable peer list or deletes the
\* room.
C36_StaleConnectionSparesNewer ==
    [][\A c, d \in Conns :
          LET r == sock[c].roomId
              key == <<sock[c].roomId, sock[c].username>>
          IN  (Replaces(d, c) /\ Leaves(c))
                => /\ producerInfo'[key] = producerInfo[key]
                   /\ consumerInfo'[key] = consumerInfo[key]
                   /\ transports' = transports
                   /\ producers' = producers
                   /\ redis'[r].exists
                   /\ \E i \in DOMAIN redis'[r].peers : redis'[r].peers[i] = key[2]]_vars

\* ------------------------------------------- the list and the session table

Quiescent == \A t \in TaskIds : tasks[t].pc = "idle"

\* The usernames that hold a record for room r.
Holders(r) == {u \in Users : producerInfo[<<r, u>>].present \/ consumerInfo[<<r, u>>].present}

Listed(r) == {redis[r].peers[i] : i \in DOMAIN redis[r].peers}

\* C37: when no handler is suspended and no join has been rejected, the
\* durable peer list of an existing room names exactly the peers that hold a
\* record for the room, each once, and a room without a durable record has
\* no records.
C37_ListMatchesSessionTable ==
    (Quiescent /\ \A a \in JoinAcks : a.err = "")
        => \A r \in Rooms :
              IF redis[r].exists
              THEN /\ Listed(r) = Holders(r)
                   /\ Cardinality(Listed(r)) = Len(redis[r].peers)
              ELSE Holders(r) = {}

\* ------------------------------------------- a connection that joins twice

\* Connection 1 creates rooms as alice, up to MaxJoin times and in any room,
\* and disconnects; connection 2 joins r1 as bob.
InitSwitch ==
    Scenario([NoQuota EXCEPT !["joinRoom"] = MaxJoin, !["disconnect"] = MaxDisconnect],
             [NoQuota EXCEPT !["joinRoom"] = 1])

NextSwitch ==
    \/ \E r \in Rooms : StartJoin(1, UserOf(1), r, TRUE)
    \/ \E r \in OneRoom : StartJoin(2, UserOf(2), r, FALSE)
    \/ \E c \in Conns : Disconnect(c)
    \/ \E t \in TaskIds : JoinSteps(t) \/ DiscSteps(t)

SpecSwitch == InitSwitch /\ [][NextSwitch]_vars

\* C38: the disconnect of a connection none of whose joins is in flight
\* leaves nothing of the connection behind, however many joins it sent.  The
\* step in which it disconnects removes the records of every room and
\* username it joined without error, and when its disconnect handler ends
\* none of these usernames is in the durable list of its room.
C38_DisconnectLeavesNothing ==
    [][\A c \in Conns :
          LET t == <<c, "disconnect">>
              mine == {a \in JoinAcks : a.conn = c /\ a.err = ""}
          IN  /\ (/\ sock[c].connected /\ ~sock'[c].connected
                  /\ tasks[<<c, "joinRoom">>].pc = "idle")
                    => \A a \in mine :
                          /\ ~producerInfo'[<<a.room, a.user>>].present
                          /\ ~consumerInfo'[<<a.room, a.user>>].present
              /\ (/\ tasks[t].pc # "idle" /\ tasks'[t].pc = "idle"
                  /\ tasks[<<c, "joinRoom">>].pc = "idle")
                    => \A a \in mine :
                          \A i \in DOMAIN redis'[a.room].peers :
                              redis'[a.room].peers[i] # a.user]_vars

====
